---- MODULE Spec2Model ----
(***************************************************************************)
(* A model of the SA-Phrase-Search repository: suffix array construction   *)
(* (sa_is.hpp, naive comparison sort and the partial SA-IS variant), the   *)
(* two substring locators (SAMatcher in parser.hpp, detail::sa_match in    *)
(* sa-match.hpp) and the proximity combinator (grouped-data.hpp).          *)
(*                                                                         *)
(* Positions are 0-based as in the C++ code; TLA+ sequences are 1-based,   *)
(* so the code unit at position p of s is s[p + 1] and the i-th entry of   *)
(* a vector v (0-based i) is v[i + 1].                                     *)
(***************************************************************************)
EXTENDS Integers, Sequences, FiniteSets, TLC

\* ------------------------------------------------------------------ bounds
MaxChar == 1        \* code units are 0..MaxChar
MaxLen == 4         \* texts have at most MaxLen code units
MaxPatLen == 3      \* patterns have at most MaxPatLen code units
MaxGroupPatLen == 2 \* patterns of a group have at most MaxGroupPatLen code units
MaxGroup == 3       \* a group has at most MaxGroup patterns
MaxMd == 2          \* the distance tolerance md is 0..MaxMd
MaxPos == 3         \* the positions of a list operation's lists are 0..MaxPos
MaxListLen == 3     \* such a list has at most MaxListLen positions

Alphabet == 0..MaxChar

\* the scenario of tests/test_basic.cpp: "banana" searched for "ana", "na",
\* "xyz" (ASCII code units)
Banana == <<98, 97, 110, 97, 110, 97>>
Ana == <<97, 110, 97>>
Na == <<110, 97>>
Xyz == <<120, 121, 122>>

Texts == UNION {[1..n -> Alphabet] : n \in 0..MaxLen} \cup {Banana}
Patterns == UNION {[1..m -> Alphabet] : m \in 0..MaxPatLen} \cup {Ana, Na, Xyz}
GroupPatterns == {p \in Patterns : Len(p) <= MaxGroupPatLen}
GroupLists == UNION {[1..k -> GroupPatterns] : k \in 0..MaxGroup}

\* ----------------------------------------------------------------- helpers
At(s, p) == s[p + 1]

Min(a, b) == IF a < b THEN a ELSE b

Abs(x) == IF x < 0 THEN -x ELSE x

Range(f) == {f[i] : i \in DOMAIN f}

\* mutant: the numbering starts at 1
IotaFromOne(n) == [i \in 1..n |-> i]

\* std::vector<int> ans(n); std::iota(ans.begin(), ans.end(), 0);
Iota(n) == [i \in 1..n |-> i - 1]

\* mutant: the sort of the collected positions left out
SortOmitted(v) == v

\* std::sort on a vector<int> with operator<
RECURSIVE InsertInt(_, _)
InsertInt(x, sorted) ==
    IF sorted = <<>> THEN <<x>>
    ELSE IF x < Head(sorted) THEN <<x>> \o sorted
    ELSE <<Head(sorted)>> \o InsertInt(x, Tail(sorted))

RECURSIVE SortInts(_)
SortInts(v) ==
    IF v = <<>> THEN <<>> ELSE InsertInt(Head(v), SortInts(Tail(v)))

\* ------------------------------------------- sa_is.hpp: SuffixArray (naive)
\* The comparison lambda of buildSimple: is the suffix at a before the one at b
RECURSIVE SuffixLessFrom(_, _, _, _, _)
SuffixLessFrom(s, n, a, b, i) ==
    IF a + i < n /\ b + i < n
    THEN IF At(s, a + i) < At(s, b + i) THEN TRUE
         ELSE IF At(s, a + i) > At(s, b + i) THEN FALSE
         ELSE SuffixLessFrom(s, n, a, b, i + 1)
    ELSE (a + i = n /\ b + i < n)

\* mutant: the two code-unit tests answer the wrong way round
RECURSIVE SuffixLessSwappedFrom(_, _, _, _, _)
SuffixLessSwappedFrom(s, n, a, b, i) ==
    IF a + i < n /\ b + i < n
    THEN IF At(s, a + i) < At(s, b + i) THEN FALSE
         ELSE IF At(s, a + i) > At(s, b + i) THEN TRUE
         ELSE SuffixLessSwappedFrom(s, n, a, b, i + 1)
    ELSE (a + i = n /\ b + i < n)

SuffixLessSwapped(s, n, a, b) == SuffixLessSwappedFrom(s, n, a, b, 0)

SuffixLess(s, n, a, b) == SuffixLessFrom(s, n, a, b, 0)

\* std::sort(sa.begin(), sa.end(), lambda): the lambda is a strict total order
\* on distinct suffix positions, so the sorted vector is unique
RECURSIVE InsertSuffix(_, _, _, _)
InsertSuffix(s, n, x, sorted) ==
    IF sorted = <<>> THEN <<x>>
    ELSE IF SuffixLess(s, n, x, Head(sorted)) THEN <<x>> \o sorted
    ELSE <<Head(sorted)>> \o InsertSuffix(s, n, x, Tail(sorted))

RECURSIVE SortSuffixes(_, _, _)
SortSuffixes(s, n, v) ==
    IF v = <<>> THEN <<>>
    ELSE InsertSuffix(s, n, Head(v), SortSuffixes(s, n, Tail(v)))

\* mutant: one more slot, as for a sentinel
ResizedWithSentinel(n) == [i \in 1..(n + 1) |-> 0]

\* sa_.resize(n_) on the empty vector
Resized(n) == [i \in 1..n |-> 0]

\* mutant: the fill loop stops one short, leaving the last entry at its
\* resize() value 0
InitIndicesShort(n) == [i \in 1..n |-> IF i < n THEN i - 1 ELSE 0]

\* sa.resize(n); for (i = 0; i < n; ++i) sa[i] = i;
InitIndices(n) == [i \in 1..n |-> i - 1]

buildSimple(s, n) == SortSuffixes(s, n, InitIndices(n))

\* std::vector<int> rank(n); for (i = 0; i < n; ++i) rank[sa_[i]] = i;
\* (an entry never written keeps 0, the last write to an entry wins)
RankOf(sa) ==
    [p \in 0..(Len(sa) - 1) |->
        LET S == {i \in 1..Len(sa) : sa[i] = p}
        IN IF S = {} THEN 0 ELSE (CHOOSE i \in S : \A k \in S : k <= i) - 1]

\* the inner while loop of computeLCP: extend h while the code units agree
RECURSIVE ExtendLcp(_, _, _, _, _)
ExtendLcp(s, n, i, j, h) ==
    IF i + h < n /\ j + h < n /\ At(s, i + h) = At(s, j + h)
    THEN ExtendLcp(s, n, i, j, h + 1)
    ELSE h

\* the outer for loop of computeLCP from index i on, with running h and lcp
RECURSIVE KasaiFrom(_, _, _, _, _, _)
KasaiFrom(s, sa, rank, i, h, lcp) ==
    LET n == Len(sa) IN
    IF i >= n THEN lcp
    ELSE IF rank[i] > 0
         THEN LET j == sa[rank[i]]     \* sa_[rank[i] - 1], 0-based
                  h2 == ExtendLcp(s, n, i, j, h)
              IN KasaiFrom(s, sa, rank, i + 1,
                           IF h2 > 0 THEN h2 - 1 ELSE h2,
                           [lcp EXCEPT ![rank[i] + 1] = h2])
         ELSE KasaiFrom(s, sa, rank, i + 1, h, lcp)

\* mutant: h is carried to the next suffix without the decrement
RECURSIVE KasaiKeepHFrom(_, _, _, _, _, _)
KasaiKeepHFrom(s, sa, rank, i, h, lcp) ==
    LET n == Len(sa) IN
    IF i >= n THEN lcp
    ELSE IF rank[i] > 0
         THEN LET j == sa[rank[i]]
                  h2 == ExtendLcp(s, n, i, j, h)
              IN KasaiKeepHFrom(s, sa, rank, i + 1, h2,
                                [lcp EXCEPT ![rank[i] + 1] = h2])
         ELSE KasaiKeepHFrom(s, sa, rank, i + 1, h, lcp)

computeLCPKeepH(s, sa) ==
    KasaiKeepHFrom(s, sa, RankOf(sa), 0, 0, [i \in 1..Len(sa) |-> 0])

computeLCP(s, sa) ==
    KasaiFrom(s, sa, RankOf(sa), 0, 0, [i \in 1..Len(sa) |-> 0])

\* ------------------------------- part_001: SuffixArray (partial SA-IS variant)
\* computeTypes: types[i] is TRUE for L-type, FALSE for S-type
RECURSIVE TypeAt(_, _, _)
TypeAt(s, n, i) ==
    IF i = n - 1 THEN FALSE
    ELSE IF At(s, i) < At(s, i + 1) THEN FALSE
    ELSE IF At(s, i) > At(s, i + 1) THEN TRUE
    ELSE TypeAt(s, n, i + 1)

computeTypes(s, n) == [i \in 0..(n - 1) |-> TypeAt(s, n, i)]

isLMS(i, types) == IF i = 0 THEN FALSE ELSE ~types[i] /\ types[i - 1]

\* max_char of the constructor: the largest code unit, starting from 0
MaxCodeUnit(s) ==
    IF s = <<>> THEN 0
    ELSE CHOOSE c \in Range(s) \cup {0} : \A d \in Range(s) : d <= c

\* buckets[c]: the number of positions holding code unit c
BucketSizes(s, n, alphabet_size) ==
    [c \in 0..(alphabet_size - 1) |->
        Cardinality({i \in 0..(n - 1) : At(s, i) = c})]

\* bucket_starts[c]: the prefix sum before c
BucketStarts(s, n, alphabet_size) ==
    [c \in 0..(alphabet_size - 1) |->
        Cardinality({i \in 0..(n - 1) : At(s, i) < c})]

\* bucket_ends[c]: the prefix sum through c
BucketEnds(s, n, alphabet_size) ==
    [c \in 0..(alphabet_size - 1) |->
        Cardinality({i \in 0..(n - 1) : At(s, i) <= c})]

\* first loop of induceSort, i = n-1 down to 0: LMS suffixes to bucket tails
RECURSIVE PlaceLMS(_, _, _, _, _, _)
PlaceLMS(s, n, types, i, sa, tails) ==
    IF i < 0 THEN sa
    ELSE IF isLMS(i, types)
         THEN LET c == At(s, i)
                  t == tails[c] - 1
              IN PlaceLMS(s, n, types, i - 1,
                          [sa EXCEPT ![t + 1] = i], [tails EXCEPT ![c] = t])
         ELSE PlaceLMS(s, n, types, i - 1, sa, tails)

\* second loop of induceSort, i = 0 up to n-1: induce the L-type suffixes
RECURSIVE InduceL(_, _, _, _, _, _)
InduceL(s, n, types, i, sa, heads) ==
    IF i >= n THEN sa
    ELSE IF sa[i + 1] > 0 /\ types[sa[i + 1] - 1]
         THEN LET j == sa[i + 1] - 1
                  c == At(s, j)
              IN InduceL(s, n, types, i + 1,
                         [sa EXCEPT ![heads[c] + 1] = j],
                         [heads EXCEPT ![c] = heads[c] + 1])
         ELSE InduceL(s, n, types, i + 1, sa, heads)

\* third loop of induceSort, i = n-1 down to 0: induce the S-type suffixes
RECURSIVE InduceS(_, _, _, _, _, _)
InduceS(s, n, types, i, sa, tails) ==
    IF i < 0 THEN sa
    ELSE IF sa[i + 1] > 0 /\ ~types[sa[i + 1] - 1]
         THEN LET j == sa[i + 1] - 1
                  c == At(s, j)
                  t == tails[c] - 1
              IN InduceS(s, n, types, i - 1,
                         [sa EXCEPT ![t + 1] = j], [tails EXCEPT ![c] = t])
         ELSE InduceS(s, n, types, i - 1, sa, tails)

induceSort(s, n, types, buckets, bucket_ends) ==
    LET sa0 == [i \in 1..n |-> -1]
        sa1 == PlaceLMS(s, n, types, n - 1, sa0, bucket_ends)
        sa2 == InduceL(s, n, types, 0, sa1, buckets)
    IN InduceS(s, n, types, n - 1, sa2, bucket_ends)

\* buildSAIS on the zero-filled vector left by sa_.resize(n_)
buildSAIS(s, n, alphabet_size) ==
    IF n = 0 THEN <<>>
    ELSE IF n = 1 THEN <<0>>
    ELSE induceSort(s, n, computeTypes(s, n),
                    BucketStarts(s, n, alphabet_size),
                    BucketEnds(s, n, alphabet_size))

IsPermutation(sa, n) == Len(sa) = n /\ Range(sa) = 0..(n - 1)

\* --------------------------------------------------- parser.hpp: SAMatcher
\* comparePattern from index i on: -1, 0 or 1
RECURSIVE comparePatternFrom(_, _, _, _)
comparePatternFrom(s, pat, pos, i) ==
    IF i >= Len(pat) THEN 0
    ELSE IF pos + i >= Len(s) THEN 1
    ELSE IF At(pat, i) < At(s, pos + i) THEN -1
    ELSE IF At(pat, i) > At(s, pos + i) THEN 1
    ELSE comparePatternFrom(s, pat, pos, i + 1)

\* mutant: a suffix that ends inside the pattern counts as a match
RECURSIVE comparePatternPrefixFrom(_, _, _, _)
comparePatternPrefixFrom(s, pat, pos, i) ==
    IF i >= Len(pat) THEN 0
    ELSE IF pos + i >= Len(s) THEN 0
    ELSE IF At(pat, i) < At(s, pos + i) THEN -1
    ELSE IF At(pat, i) > At(s, pos + i) THEN 1
    ELSE comparePatternPrefixFrom(s, pat, pos, i + 1)

comparePatternPrefix(s, pat, suffix_idx) ==
    comparePatternPrefixFrom(s, pat, suffix_idx, 0)

comparePattern(s, pat, suffix_idx) == comparePatternFrom(s, pat, suffix_idx, 0)

RECURSIVE findLeftLoop(_, _, _, _, _)
findLeftLoop(s, sav, pat, left, right) ==
    IF left < right
    THEN LET mid == left + (right - left) \div 2 IN
         IF comparePattern(s, pat, At(sav, mid)) > 0
         THEN findLeftLoop(s, sav, pat, mid + 1, right)
         ELSE findLeftLoop(s, sav, pat, left, mid)
    ELSE left

findLeft(s, sav, pat) == findLeftLoop(s, sav, pat, 0, Len(sav))

RECURSIVE findRightLoop(_, _, _, _, _)
findRightLoop(s, sav, pat, left, right) ==
    IF left < right
    THEN LET mid == left + (right - left) \div 2 IN
         IF comparePattern(s, pat, At(sav, mid)) >= 0
         THEN findRightLoop(s, sav, pat, mid + 1, right)
         ELSE findRightLoop(s, sav, pat, left, mid)
    ELSE left

findRight(s, sav, pat) == findRightLoop(s, sav, pat, 0, Len(sav))

\* for (i = left; i < right; ++i) result.push_back(sa[i]);
Slice(sav, left, right) ==
    IF left < right THEN [j \in 1..(right - left) |-> At(sav, left + j - 1)]
    ELSE <<>>

findAll(s, sav, pat) ==
    IF Len(pat) = 0 \/ Len(s) = 0 THEN <<>>
    ELSE SortInts(Slice(sav, findLeft(s, sav, pat), findRight(s, sav, pat)))

\* mutant: exists tests left <= right
existsOrEqual(s, sav, pat) ==
    IF Len(pat) = 0 \/ Len(s) = 0 THEN FALSE
    ELSE findLeft(s, sav, pat) <= findRight(s, sav, pat)

\* SAMatcher::exists
exists(s, sav, pat) ==
    IF Len(pat) = 0 \/ Len(s) = 0 THEN FALSE
    ELSE findLeft(s, sav, pat) < findRight(s, sav, pat)

\* SAMatcher::count
count(s, sav, pat) ==
    IF Len(pat) = 0 \/ Len(s) = 0 THEN 0
    ELSE findRight(s, sav, pat) - findLeft(s, sav, pat)

\* ------------------------------------------------- sa-match.hpp: sa_match
\* The code unit that ps[q] reads: the text, then the terminator that
\* std::wstring::data() guarantees at q = n, then whatever lies behind the
\* buffer (g, indexed from 1 for q = n + 1).
Mem(s, g, q) ==
    IF q < Len(s) THEN At(s, q)
    ELSE IF q = Len(s) THEN 0
    ELSE g[q - Len(s)]

\* std::char_traits<wchar_t>::compare(ps + pos, pt, t.size()): the first
\* difference among t.size() code units decides; no bound on the suffix length
RECURSIVE compareFrom(_, _, _, _, _)
compareFrom(s, g, pos, t, i) ==
    IF i >= Len(t) THEN 0
    ELSE IF Mem(s, g, pos + i) < At(t, i) THEN -1
    ELSE IF Mem(s, g, pos + i) > At(t, i) THEN 1
    ELSE compareFrom(s, g, pos, t, i + 1)

compare(s, g, pos, t) == compareFrom(s, g, pos, t, 0)

\* the lambda bin(first) of sa_match from the loop state (l, r, ans) on
RECURSIVE binLoop(_, _, _, _, _, _, _, _)
binLoop(s, sav, t, g, first, l, r, ans) ==
    IF l <= r
    THEN LET mid == (l + r) \div 2
             cmp == compare(s, g, At(sav, mid), t)
         IN IF cmp = 0
            THEN IF first
                 THEN binLoop(s, sav, t, g, first, l, mid - 1, mid)
                 ELSE binLoop(s, sav, t, g, first, mid + 1, r, mid)
            ELSE IF cmp > 0
                 THEN binLoop(s, sav, t, g, first, l, mid - 1, ans)
                 ELSE binLoop(s, sav, t, g, first, mid + 1, r, ans)
    ELSE ans

bin(s, sav, t, g, first) == binLoop(s, sav, t, g, first, 0, Len(s) - 1, -1)

sa_match(s, sav, t, g) ==
    IF Len(s) < Len(t) THEN <<>>
    ELSE IF Len(s) = Len(t) THEN (IF s = t THEN <<0>> ELSE <<>>)
    ELSE LET ansl == bin(s, sav, t, g, TRUE)
             ansr == bin(s, sav, t, g, FALSE)
         IN IF ansl = -1 THEN <<>>
            ELSE SortInts(Slice(sav, ansl, ansr + 1))

\* what may lie behind the terminator of the text buffer: any code unit,
\* below, inside or above the alphabet. compare reads at most m - 2 units there
GarbageUnits == (-1)..(MaxChar + 1)

Garbage(m) == [1..(IF m > 2 THEN m - 2 ELSE 0) -> GarbageUnits]

\* --------------------------------------- grouped-data.hpp: grouped_match
\* the while loop of one AND fold step from the loop state (j, k, buffer) on
RECURSIVE andLoop(_, _, _, _, _, _)
andLoop(ans, f, md, j, k, buffer) ==
    IF j < Len(ans) /\ k < Len(f)
    THEN IF Abs(At(ans, j) - At(f, k)) <= md
         THEN andLoop(ans, f, md, j + 1, k + 1,
                      Append(buffer, Min(At(ans, j), At(f, k))))
         ELSE IF At(ans, j) < At(f, k)
              THEN andLoop(ans, f, md, j + 1, k, buffer)
              ELSE andLoop(ans, f, md, j, k + 1, buffer)
    ELSE buffer

\* mutant: a match advances j only
RECURSIVE andLoopKeepK(_, _, _, _, _, _)
andLoopKeepK(ans, f, md, j, k, buffer) ==
    IF j < Len(ans) /\ k < Len(f)
    THEN IF Abs(At(ans, j) - At(f, k)) <= md
         THEN andLoopKeepK(ans, f, md, j + 1, k,
                           Append(buffer, Min(At(ans, j), At(f, k))))
         ELSE IF At(ans, j) < At(f, k)
              THEN andLoopKeepK(ans, f, md, j + 1, k, buffer)
              ELSE andLoopKeepK(ans, f, md, j, k + 1, buffer)
    ELSE buffer

andStepKeepK(ans, f, md) == andLoopKeepK(ans, f, md, 0, 0, <<>>)

\* mutant: the distance test without abs
RECURSIVE andLoopNoAbs(_, _, _, _, _, _)
andLoopNoAbs(ans, f, md, j, k, buffer) ==
    IF j < Len(ans) /\ k < Len(f)
    THEN IF At(ans, j) - At(f, k) <= md
         THEN andLoopNoAbs(ans, f, md, j + 1, k + 1,
                           Append(buffer, Min(At(ans, j), At(f, k))))
         ELSE IF At(ans, j) < At(f, k)
              THEN andLoopNoAbs(ans, f, md, j + 1, k, buffer)
              ELSE andLoopNoAbs(ans, f, md, j, k + 1, buffer)
    ELSE buffer

andStepNoAbs(ans, f, md) == andLoopNoAbs(ans, f, md, 0, 0, <<>>)

\* mutant: the AND loop followed by the drain of what is left of ans
RECURSIVE andLoopDrain(_, _, _, _, _, _)
andLoopDrain(ans, f, md, j, k, buffer) ==
    IF j < Len(ans) /\ k < Len(f)
    THEN IF Abs(At(ans, j) - At(f, k)) <= md
         THEN andLoopDrain(ans, f, md, j + 1, k + 1,
                           Append(buffer, Min(At(ans, j), At(f, k))))
         ELSE IF At(ans, j) < At(f, k)
              THEN andLoopDrain(ans, f, md, j + 1, k, buffer)
              ELSE andLoopDrain(ans, f, md, j, k + 1, buffer)
    ELSE IF j < Len(ans)
         THEN andLoopDrain(ans, f, md, j + 1, k, Append(buffer, At(ans, j)))
    ELSE buffer

andStepDrain(ans, f, md) == andLoopDrain(ans, f, md, 0, 0, <<>>)

\* mutant: a match emits the larger of the two positions
RECURSIVE andLoopEmitMax(_, _, _, _, _, _)
andLoopEmitMax(ans, f, md, j, k, buffer) ==
    IF j < Len(ans) /\ k < Len(f)
    THEN IF Abs(At(ans, j) - At(f, k)) <= md
         THEN andLoopEmitMax(ans, f, md, j + 1, k + 1,
                             Append(buffer,
                                    IF At(ans, j) < At(f, k)
                                    THEN At(f, k) ELSE At(ans, j)))
         ELSE IF At(ans, j) < At(f, k)
              THEN andLoopEmitMax(ans, f, md, j + 1, k, buffer)
              ELSE andLoopEmitMax(ans, f, md, j, k + 1, buffer)
    ELSE buffer

andStepEmitMax(ans, f, md) == andLoopEmitMax(ans, f, md, 0, 0, <<>>)

\* mutant: a match advances k only
RECURSIVE andLoopKeepJ(_, _, _, _, _, _)
andLoopKeepJ(ans, f, md, j, k, buffer) ==
    IF j < Len(ans) /\ k < Len(f)
    THEN IF Abs(At(ans, j) - At(f, k)) <= md
         THEN andLoopKeepJ(ans, f, md, j, k + 1,
                           Append(buffer, Min(At(ans, j), At(f, k))))
         ELSE IF At(ans, j) < At(f, k)
              THEN andLoopKeepJ(ans, f, md, j + 1, k, buffer)
              ELSE andLoopKeepJ(ans, f, md, j, k + 1, buffer)
    ELSE buffer

andStepKeepJ(ans, f, md) == andLoopKeepJ(ans, f, md, 0, 0, <<>>)

\* mutant: a mismatch advances the index of the larger position
RECURSIVE andLoopAdvanceLarger(_, _, _, _, _, _)
andLoopAdvanceLarger(ans, f, md, j, k, buffer) ==
    IF j < Len(ans) /\ k < Len(f)
    THEN IF Abs(At(ans, j) - At(f, k)) <= md
         THEN andLoopAdvanceLarger(ans, f, md, j + 1, k + 1,
                                   Append(buffer, Min(At(ans, j), At(f, k))))
         ELSE IF At(ans, j) > At(f, k)
              THEN andLoopAdvanceLarger(ans, f, md, j + 1, k, buffer)
              ELSE andLoopAdvanceLarger(ans, f, md, j, k + 1, buffer)
    ELSE buffer

andStepAdvanceLarger(ans, f, md) ==
    andLoopAdvanceLarger(ans, f, md, 0, 0, <<>>)

\* one AND fold step: int j = 0, k = 0; while ...; swap(ans, buffer)
andStep(ans, f, md) == andLoop(ans, f, md, 0, 0, <<>>)

\* the three loops of one OR fold step from the loop state (j, k, buffer) on:
\* the merge, then the two drains
RECURSIVE orLoop(_, _, _, _, _, _)
orLoop(ans, f, md, j, k, buffer) ==
    IF j < Len(ans) /\ k < Len(f)
    THEN IF Abs(At(ans, j) - At(f, k)) <= md
         THEN orLoop(ans, f, md, j + 1, k + 1,
                     Append(buffer, Min(At(ans, j), At(f, k))))
         ELSE IF At(ans, j) < At(f, k)
              THEN orLoop(ans, f, md, j + 1, k, Append(buffer, At(ans, j)))
              ELSE orLoop(ans, f, md, j, k + 1, Append(buffer, At(f, k)))
    ELSE IF j < Len(ans)
         THEN orLoop(ans, f, md, j + 1, k, Append(buffer, At(ans, j)))
    ELSE IF k < Len(f)
         THEN orLoop(ans, f, md, j, k + 1, Append(buffer, At(f, k)))
    ELSE buffer

\* mutant: the two drain loops left out
RECURSIVE orLoopNoDrain(_, _, _, _, _, _)
orLoopNoDrain(ans, f, md, j, k, buffer) ==
    IF j < Len(ans) /\ k < Len(f)
    THEN IF Abs(At(ans, j) - At(f, k)) <= md
         THEN orLoopNoDrain(ans, f, md, j + 1, k + 1,
                            Append(buffer, Min(At(ans, j), At(f, k))))
         ELSE IF At(ans, j) < At(f, k)
              THEN orLoopNoDrain(ans, f, md, j + 1, k,
                                 Append(buffer, At(ans, j)))
              ELSE orLoopNoDrain(ans, f, md, j, k + 1,
                                 Append(buffer, At(f, k)))
    ELSE buffer

orStepNoDrain(ans, f, md) == orLoopNoDrain(ans, f, md, 0, 0, <<>>)

\* mutant: a match emits both positions
RECURSIVE orLoopEmitBoth(_, _, _, _, _, _)
orLoopEmitBoth(ans, f, md, j, k, buffer) ==
    IF j < Len(ans) /\ k < Len(f)
    THEN IF Abs(At(ans, j) - At(f, k)) <= md
         THEN orLoopEmitBoth(ans, f, md, j + 1, k + 1,
                             buffer \o <<At(ans, j), At(f, k)>>)
         ELSE IF At(ans, j) < At(f, k)
              THEN orLoopEmitBoth(ans, f, md, j + 1, k,
                                  Append(buffer, At(ans, j)))
              ELSE orLoopEmitBoth(ans, f, md, j, k + 1,
                                  Append(buffer, At(f, k)))
    ELSE IF j < Len(ans)
         THEN orLoopEmitBoth(ans, f, md, j + 1, k, Append(buffer, At(ans, j)))
    ELSE IF k < Len(f)
         THEN orLoopEmitBoth(ans, f, md, j, k + 1, Append(buffer, At(f, k)))
    ELSE buffer

orStepEmitBoth(ans, f, md) == orLoopEmitBoth(ans, f, md, 0, 0, <<>>)

\* mutant: the distance test is strict
RECURSIVE orLoopStrict(_, _, _, _, _, _)
orLoopStrict(ans, f, md, j, k, buffer) ==
    IF j < Len(ans) /\ k < Len(f)
    THEN IF Abs(At(ans, j) - At(f, k)) < md
         THEN orLoopStrict(ans, f, md, j + 1, k + 1,
                           Append(buffer, Min(At(ans, j), At(f, k))))
         ELSE IF At(ans, j) < At(f, k)
              THEN orLoopStrict(ans, f, md, j + 1, k,
                                Append(buffer, At(ans, j)))
              ELSE orLoopStrict(ans, f, md, j, k + 1,
                                Append(buffer, At(f, k)))
    ELSE IF j < Len(ans)
         THEN orLoopStrict(ans, f, md, j + 1, k, Append(buffer, At(ans, j)))
    ELSE IF k < Len(f)
         THEN orLoopStrict(ans, f, md, j, k + 1, Append(buffer, At(f, k)))
    ELSE buffer

orStepStrict(ans, f, md) == orLoopStrict(ans, f, md, 0, 0, <<>>)

orStep(ans, f, md) == orLoop(ans, f, md, 0, 0, <<>>)

\* fevery[i] = sa_match(str, sa, data.strs[i])
Fevery(str, sav, strs, g) ==
    [i \in 1..Len(strs) |-> sa_match(str, sav, strs[i], g)]

\* the pairings of one AND fold step: the (j, k) at which the while loop
\* takes its first branch and pushes min(ans[j], fevery[i][k])
RECURSIVE andPairsFrom(_, _, _, _, _, _)
andPairsFrom(ans, f, md, j, k, pairs) ==
    IF j < Len(ans) /\ k < Len(f)
    THEN IF Abs(At(ans, j) - At(f, k)) <= md
         THEN andPairsFrom(ans, f, md, j + 1, k + 1, Append(pairs, <<j, k>>))
         ELSE IF At(ans, j) < At(f, k)
              THEN andPairsFrom(ans, f, md, j + 1, k, pairs)
              ELSE andPairsFrom(ans, f, md, j, k + 1, pairs)
    ELSE pairs

andPairs(ans, f, md) == andPairsFrom(ans, f, md, 0, 0, <<>>)

\* the pairings of one OR fold step, likewise; the two drain loops pair
\* nothing
RECURSIVE orPairsFrom(_, _, _, _, _, _)
orPairsFrom(ans, f, md, j, k, pairs) ==
    IF j < Len(ans) /\ k < Len(f)
    THEN IF Abs(At(ans, j) - At(f, k)) <= md
         THEN orPairsFrom(ans, f, md, j + 1, k + 1, Append(pairs, <<j, k>>))
         ELSE IF At(ans, j) < At(f, k)
              THEN orPairsFrom(ans, f, md, j + 1, k, pairs)
              ELSE orPairsFrom(ans, f, md, j, k + 1, pairs)
    ELSE pairs

orPairs(ans, f, md) == orPairsFrom(ans, f, md, 0, 0, <<>>)

\* the for loop of the AND overload from fold step i on: acc holds ans as it
\* was after fevery[0] and after each fold step so far
RECURSIVE andStepsFrom(_, _, _, _)
andStepsFrom(fevery, md, i, acc) ==
    IF i > Len(fevery) THEN acc
    ELSE andStepsFrom(fevery, md, i + 1,
                      Append(acc, andStep(acc[Len(acc)], fevery[i], md)))

andSteps(fevery, md) ==
    IF Len(fevery) = 0 THEN <<>>
    ELSE andStepsFrom(fevery, md, 2, <<fevery[1]>>)

\* the for loop of the OR overload, likewise
RECURSIVE orStepsFrom(_, _, _, _)
orStepsFrom(fevery, md, i, acc) ==
    IF i > Len(fevery) THEN acc
    ELSE orStepsFrom(fevery, md, i + 1,
                     Append(acc, orStep(acc[Len(acc)], fevery[i], md)))

orSteps(fevery, md) ==
    IF Len(fevery) = 0 THEN <<>>
    ELSE orStepsFrom(fevery, md, 2, <<fevery[1]>>)

\* what grouped_match returns: every position for a group without patterns,
\* else ans after the last fold step
grouped_result(str, fevery, trace) ==
    IF Len(fevery) = 0 THEN Iota(Len(str)) ELSE trace[Len(trace)]

\* grouped_match(str, sa, grouped_data<AND>, md), given fevery
grouped_match_AND(str, fevery, md) ==
    grouped_result(str, fevery, andSteps(fevery, md))

\* grouped_match(str, sa, grouped_data<OR>, md), given fevery
grouped_match_OR(str, fevery, md) ==
    grouped_result(str, fevery, orSteps(fevery, md))

MaxPatternLen(strs) ==
    IF strs = <<>> THEN 0
    ELSE CHOOSE m \in {Len(strs[i]) : i \in 1..Len(strs)} :
            \A i \in 1..Len(strs) : Len(strs[i]) <= m

\* --------------------------------------- sa-is.hpp (hyphen): suffix_array
\* lexicographic order of code-unit sequences, a proper prefix being smaller
LexLess(u, v) ==
    \E k \in 0..Min(Len(u), Len(v)) :
        /\ \A i \in 1..k : u[i] = v[i]
        /\ \/ (k = Len(u) /\ k < Len(v))
           \/ (k < Len(u) /\ k < Len(v) /\ u[k + 1] < v[k + 1])

Suffix(s, p) == SubSeq(s, p + 1, Len(s))

\* detail::suffix_array(str): the positions of str in the order of their
\* suffixes
suffix_array(s) ==
    [r \in 1..Len(s) |->
        CHOOSE p \in 0..(Len(s) - 1) :
            Cardinality({q \in 0..(Len(s) - 1) :
                            LexLess(Suffix(s, q), Suffix(s, p))}) = r - 1]

\* --------------------------------------------------- andor.hpp: list operations
\* std::set_intersection over two sorted ranges
RECURSIVE set_intersection(_, _, _, _, _)
set_intersection(a, b, i, j, out) ==
    IF i < Len(a) /\ j < Len(b)
    THEN IF At(a, i) < At(b, j)
         THEN set_intersection(a, b, i + 1, j, out)
         ELSE IF At(b, j) < At(a, i)
              THEN set_intersection(a, b, i, j + 1, out)
              ELSE set_intersection(a, b, i + 1, j + 1, Append(out, At(a, i)))
    ELSE out

\* std::set_union over two sorted ranges
RECURSIVE set_union(_, _, _, _, _)
set_union(a, b, i, j, out) ==
    IF i >= Len(a) THEN out \o SubSeq(b, j + 1, Len(b))
    ELSE IF j >= Len(b) THEN out \o SubSeq(a, i + 1, Len(a))
    ELSE IF At(b, j) < At(a, i)
         THEN set_union(a, b, i, j + 1, Append(out, At(b, j)))
         ELSE IF At(a, i) < At(b, j)
              THEN set_union(a, b, i + 1, j, Append(out, At(a, i)))
              ELSE set_union(a, b, i + 1, j + 1, Append(out, At(a, i)))

\* std::set_difference over two sorted ranges
RECURSIVE set_difference(_, _, _, _, _)
set_difference(a, b, i, j, out) ==
    IF i >= Len(a) THEN out
    ELSE IF j >= Len(b) THEN out \o SubSeq(a, i + 1, Len(a))
    ELSE IF At(a, i) < At(b, j)
         THEN set_difference(a, b, i + 1, j, Append(out, At(a, i)))
         ELSE IF At(b, j) < At(a, i)
              THEN set_difference(a, b, i, j + 1, out)
              ELSE set_difference(a, b, i + 1, j + 1, out)

andOperation(a, b) == set_intersection(a, b, 0, 0, <<>>)

orOperation(a, b) == set_union(a, b, 0, 0, <<>>)

\* mutant: the operands of set_difference exchanged
notOperationSwapped(a, b) == set_difference(b, a, 0, 0, <<>>)

notOperation(a, b) == set_difference(a, b, 0, 0, <<>>)

\* INT_MAX of a 32-bit int
IntMax == 2147483647

\* What an int sum outside the int range may do (undefined behaviour): wrap
\* around, or be held exactly in a wider register.
OverflowOutcomes == {"wraps", "exact"}

\* u <= x + y for ints u, x >= 0 and y >= 0, as the build evaluates it
LeqSum(u, x, y, ub) ==
    IF y > IntMax - x
    THEN IF ub = "wraps" THEN u <= (x - IntMax) + (y - IntMax) - 2 ELSE TRUE
    ELSE u <= x + y

\* while (j < b.size() && b[j] < bound) j++;
RECURSIVE MoveForward(_, _, _)
MoveForward(b, j, bound) ==
    IF j < Len(b) /\ At(b, j) < bound THEN MoveForward(b, j + 1, bound)
    ELSE j

\* proximityAnd's inner loop from k on: TRUE if it pushes a[i]
RECURSIVE WithinFrom(_, _, _, _, _)
WithinFrom(ai, b, k, max_distance, ub) ==
    IF k < Len(b) /\ LeqSum(At(b, k), ai, max_distance, ub)
    THEN IF Abs(At(b, k) - ai) <= max_distance THEN TRUE
         ELSE WithinFrom(ai, b, k + 1, max_distance, ub)
    ELSE FALSE

RECURSIVE proximityAndFrom(_, _, _, _, _, _, _)
proximityAndFrom(a, b, max_distance, i, j, out, ub) ==
    IF i >= Len(a) THEN out
    ELSE LET j2 == MoveForward(b, j, At(a, i) - max_distance)
         IN  proximityAndFrom(a, b, max_distance, i + 1, j2,
                 IF WithinFrom(At(a, i), b, j2, max_distance, ub)
                 THEN Append(out, At(a, i)) ELSE out,
                 ub)

proximityAnd(a, b, max_distance, ub) ==
    proximityAndFrom(a, b, max_distance, 0, 0, <<>>, ub)

RECURSIVE orderedProximityFrom(_, _, _, _, _, _, _, _)
orderedProximityFrom(a, b, pattern_a_len, max_distance, i, j, out, ub) ==
    IF i >= Len(a) THEN out
    ELSE LET end_of_a == At(a, i) + pattern_a_len
             j2 == MoveForward(b, j, end_of_a)
         IN  orderedProximityFrom(a, b, pattern_a_len, max_distance,
                 i + 1, j2,
                 IF j2 < Len(b)
                    /\ LeqSum(At(b, j2), end_of_a, max_distance, ub)
                 THEN Append(out, At(a, i)) ELSE out,
                 ub)

orderedProximity(a, b, pattern_a_len, max_distance, ub) ==
    orderedProximityFrom(a, b, pattern_a_len, max_distance, 0, 0, <<>>, ub)

\* multiAnd's loop from results[i] on
RECURSIVE multiAndFrom(_, _, _)
multiAndFrom(results, i, acc) ==
    IF i > Len(results) THEN acc
    ELSE multiAndFrom(results, i + 1, andOperation(acc, results[i]))

multiAnd(results) ==
    IF results = <<>> THEN <<>> ELSE multiAndFrom(results, 2, results[1])

\* multiOr's loop from results[i] on
RECURSIVE multiOrFrom(_, _, _)
multiOrFrom(results, i, acc) ==
    IF i > Len(results) THEN acc
    ELSE multiOrFrom(results, i + 1, orOperation(acc, results[i]))

multiOr(results) ==
    IF results = <<>> THEN <<>> ELSE multiOrFrom(results, 2, results[1])

\* ------------------------------------------------ parser.hpp: the tokenizer
\* A query is a sequence of code units of CharT (char or wchar_t), numbered
\* from 0 as in the source.
Space == 32

LParen == 40

RParen == 41

Underscore == 95

LowerA == 97

LowerZ == 122

UpperA == 65

\* the code units std::isspace accepts in the "C" locale
WhiteSpace == {9, 10, 11, 12, 13, Space}

\* std::isspace(static_cast<unsigned char>(c)): the cast keeps the low byte
isspace(c) == (c % 256) \in WhiteSpace

\* a conversion that leaves every letter as written
ToUpperKeepCase(c) == c

\* c - 'a' + 'A' for a lower-case ASCII letter
ToUpper(c) == IF c >= LowerA /\ c <= LowerZ THEN c - LowerA + UpperA ELSE c

op_upper(s) == [k \in 1..Len(s) |-> ToUpper(s[k])]

\* {'A', 'N', 'D'}, {'O', 'R'}, {'N', 'O', 'T'}
LettersAND == <<65, 78, 68>>

LettersOR == <<79, 82>>

LettersNOT == <<78, 79, 84>>

\* Token(t) and Token(t, v)
Token(type, value) == [type |-> type, value |-> value]

\* basic_string(query.begin() + start, query.begin() + i)
Sub(q, start, i) == SubSeq(q, start + 1, i)

\* while (i < query.length() && isspace(query[i])) i++
RECURSIVE SkipWhitespace(_, _)
SkipWhitespace(q, i) ==
    IF i < Len(q) /\ isspace(At(q, i)) THEN SkipWhitespace(q, i + 1) ELSE i

\* while (i < query.length() && query[i] != '_') { op += query[i]; i++; }
RECURSIVE ReadUntilUnderscore(_, _)
ReadUntilUnderscore(q, i) ==
    IF i < Len(q) /\ At(q, i) # Underscore
    THEN ReadUntilUnderscore(q, i + 1)
    ELSE i

\* the word loop: up to whitespace, a parenthesis, an underscore or the end
RECURSIVE ReadWord(_, _)
ReadWord(q, i) ==
    IF /\ i < Len(q)
       /\ ~isspace(At(q, i))
       /\ At(q, i) # LParen
       /\ At(q, i) # RParen
       /\ At(q, i) # Underscore
    THEN ReadWord(q, i + 1)
    ELSE i

\* the branch for query[i] == '_': the new i and the token it pushes
UnderscoreToken(q, start) ==
    LET opened == start + 1
        stop == ReadUntilUnderscore(q, opened)
        letters == Sub(q, opened, stop)
        i == IF stop < Len(q) /\ At(q, stop) = Underscore
             THEN stop + 1
             ELSE stop
    IN  [i |-> i,
         tokens |->
            IF op_upper(letters) = LettersAND THEN <<Token("AND", <<>>)>>
            ELSE IF op_upper(letters) = LettersOR THEN <<Token("OR", <<>>)>>
            ELSE IF op_upper(letters) = LettersNOT THEN <<Token("NOT", <<>>)>>
            ELSE <<Token("WORD", Sub(q, start, i))>>]

\* an iteration without the underscore branch: the word loop stops at once
TokenizeIterationNoUnderscore(q, from) ==
    LET i == SkipWhitespace(q, from)
    IN  IF i >= Len(q) THEN [i |-> i, tokens |-> <<>>]
        ELSE IF At(q, i) = LParen
             THEN [i |-> i + 1, tokens |-> <<Token("LPAREN", <<>>)>>]
        ELSE IF At(q, i) = RParen
             THEN [i |-> i + 1, tokens |-> <<Token("RPAREN", <<>>)>>]
        ELSE [i |-> ReadWord(q, i),
              tokens |-> <<Token("WORD", Sub(q, i, ReadWord(q, i)))>>]

\* one iteration of tokenize's outer loop, entered with i < query.length():
\* the new i and the tokens it pushes (none when it ends in the break)
TokenizeIteration(q, from) ==
    LET i == SkipWhitespace(q, from)
    IN  IF i >= Len(q) THEN [i |-> i, tokens |-> <<>>]
        ELSE IF At(q, i) = Underscore THEN UnderscoreToken(q, i)
        ELSE IF At(q, i) = LParen
             THEN [i |-> i + 1, tokens |-> <<Token("LPAREN", <<>>)>>]
        ELSE IF At(q, i) = RParen
             THEN [i |-> i + 1, tokens |-> <<Token("RPAREN", <<>>)>>]
        ELSE [i |-> ReadWord(q, i),
              tokens |-> <<Token("WORD", Sub(q, i, ReadWord(q, i)))>>]

\* extractWords' loop over tokens_: the values of the WORD tokens
RECURSIVE WordValues(_)
WordValues(toks) ==
    IF toks = <<>> THEN <<>>
    ELSE IF Head(toks).type = "WORD"
         THEN <<Head(toks).value>> \o WordValues(Tail(toks))
         ELSE WordValues(Tail(toks))

\* --------------------------------- parser.hpp: the recursive descent parser
nullptr == [type |-> "nullptr"]

\* ASTNode(t, v): left and right start as null pointers
ASTNode(type, value) ==
    [type |-> type, value |-> value, left |-> nullptr, right |-> nullptr]

\* make_shared<ASTNode>(t) followed by node->left = l; node->right = r
Binary(type, l, r) == [ASTNode(type, <<>>) EXCEPT !.left = l, !.right = r]

\* make_shared<ASTNode>(NodeType::NOT) followed by node->left = operand
Negation(operand) == [ASTNode("NOT", <<>>) EXCEPT !.left = operand]

\* current_ < tokens_.size() && tokens_[current_].type == t
TokenIs(toks, cur, type) == cur < Len(toks) /\ At(toks, cur).type = type

\* a call of one of the parse functions: where it is and its local `left`
Frame(fn, at) == [fn |-> fn, at |-> at, left |-> nullptr]

Top(st) == st[Len(st)]

Pop(st) == SubSeq(st, 1, Len(st) - 1)

\* the running call moves on to `at`
Goto(st, at) == [st EXCEPT ![Len(st)].at = at]

\* the running call moves on to `at` and calls fn
Call(st, at, fn) == Append(Goto(st, at), Frame(fn, "entry"))

\* ------------------------------------------------------------------- state
VARIABLES
    text,      \* the text T handed to the constructors (text_, m_str)
    phase,     \* "input", or the object built from the text
    sa_,       \* SuffixArray::sa_
    lcp_,      \* SuffixArray::lcp_
    sa,        \* string_data::sa
    op,        \* "idle", or the query whose result the caller holds
    pattern,   \* the pattern of a single-pattern query
    data,      \* the grouped_data of a group query: its type and its strs
    md,        \* the max_distance of a group query
    fevery,    \* grouped_match's fevery: the occurrence list of each pattern
    steps,     \* grouped_match's ans after fevery[0] and after each fold step
    result,    \* the position list the query returned
    grp,       \* the caller's grouped_data object, operand of the operators
    made,      \* the last operator call: its operands and what it returned
    answer,    \* what SAMatcher::count and SAMatcher::exists returned
    listcall,  \* a call of a list operation: its arguments and what it returned
    input,     \* the query handed to the QueryParser and how it was written
    call,      \* "none", or the QueryParser function that was called
    pc,        \* where that call is: "idle", "tokenize", "parse", "returned"
    qpos,      \* tokenize's local i
    tokens_,   \* QueryParser::tokens_
    current_,  \* QueryParser::current_
    stack,     \* the calls of the parse functions that are running
    ret,       \* what the parse function that returned last returned
    words      \* what extractWords returned

vars == <<text, phase, sa_, lcp_, sa, op, pattern, data, md, fevery, steps,
          result, grp, made, answer, listcall, input, call, pc, qpos,
          tokens_, current_, stack, ret, words>>

builder == <<grp, made>>

index == <<text, phase, sa_, lcp_, sa>>

parser == <<input, call, pc, qpos, tokens_, current_, stack, ret, words>>

\* what the index, its queries and the group builder leave alone
tools == <<answer, listcall, parser>>

\* a query that was not written from a tree
NoTree == [type |-> "none"]

NoInput == [pieces |-> <<>>, intended |-> NoTree, query |-> <<>>]

\* QueryParser(): current_(0), tokens_ empty, nothing called
NewParser ==
    /\ call = "none"
    /\ pc = "idle"
    /\ qpos = 0
    /\ tokens_ = <<>>
    /\ current_ = 0
    /\ stack = <<>>
    /\ ret = nullptr
    /\ words = <<>>

NoAnswer == [count |-> 0, exists |-> FALSE]

\* the arguments a and b before any list operation is called on them
ListArgs(a, b) ==
    [fn |-> "none", a |-> a, b |-> b, pattern_a_len |-> 0,
     max_distance |-> 0, ret |-> <<>>]

InitTools ==
    /\ answer = NoAnswer
    /\ listcall = ListArgs(<<>>, <<>>)
    /\ input = NoInput
    /\ NewParser

group == <<data, md, fevery, steps>>

query == <<op, pattern, group, result>>

NoGroup == [type |-> "none", strs |-> <<>>]

NoCall == [call |-> "none", before |-> NoGroup, args |-> <<>>, ret |-> NoGroup]

Init ==
    /\ text \in Texts
    /\ phase = "input"
    /\ sa_ = <<>>
    /\ lcp_ = <<>>
    /\ sa = <<>>
    /\ op = "idle"
    /\ pattern = <<>>
    /\ data = NoGroup
    /\ md = 0
    /\ fevery = <<>>
    /\ steps = <<>>
    /\ result = <<>>
    /\ grp = NoGroup
    /\ made = NoCall
    /\ InitTools

\* SuffixArray(text, len) of sa_is.hpp
NewSuffixArray ==
    /\ phase = "input"
    /\ phase' = "SuffixArray"
    /\ IF Len(text) = 0
       THEN /\ sa_' = Resized(Len(text))
            /\ lcp_' = <<>>
       ELSE /\ sa_' = buildSimple(text, Len(text))
            /\ lcp_' = computeLCP(text, buildSimple(text, Len(text)))
    /\ UNCHANGED <<text, sa, query, builder, tools>>

\* SuffixArray(text, len) of the SA-IS variant. computeLCP writes rank[sa_[i]]
\* and reads sa_[rank[i] - 1]: when buildSAIS leaves -1 or repeated entries in
\* sa_ these accesses are out of bounds or read unset ranks, and lcp_ may then
\* hold any values.
NewSuffixArraySAIS ==
    /\ phase = "input"
    /\ phase' = "SuffixArraySAIS"
    /\ LET n == Len(text)
           v == buildSAIS(text, n, MaxCodeUnit(text) + 1)
       IN /\ sa_' = v
          /\ IF IsPermutation(v, n)
             THEN lcp_' = computeLCP(text, v)
             ELSE lcp_' \in [1..n -> 0..n]
    /\ UNCHANGED <<text, sa, query, builder, tools>>

\* string_data(str)
NewStringData ==
    /\ phase = "input"
    /\ phase' = "string_data"
    /\ sa' = suffix_array(text)
    /\ UNCHANGED <<text, sa_, lcp_, query, builder, tools>>

\* SAMatcher(sa).findAll(pattern)
FindAll(p) ==
    /\ phase = "SuffixArray"
    /\ op = "idle"
    /\ op' = "findAll"
    /\ pattern' = p
    /\ result' = findAll(text, sa_, p)
    /\ UNCHANGED <<text, phase, sa_, lcp_, sa, group, builder, tools>>

\* string_data::search(pattern)
Search(p) ==
    /\ phase = "string_data"
    /\ op = "idle"
    /\ op' = "search"
    /\ pattern' = p
    /\ \E g \in Garbage(Len(p)) : result' = sa_match(text, sa, p, g)
    /\ UNCHANGED <<text, phase, sa_, lcp_, sa, group, builder, tools>>

\* string_data::search(grouped_data<AND>, max_distance)
SearchGroupAnd(strs, d) ==
    /\ phase = "string_data"
    /\ op = "idle"
    /\ op' = "group"
    /\ data' = [type |-> "AND", strs |-> strs]
    /\ md' = d
    /\ \E g \in Garbage(MaxPatternLen(strs)) :
          LET f == Fevery(text, sa, strs, g) IN
          /\ fevery' = f
          /\ steps' = andSteps(f, d)
          /\ result' = grouped_match_AND(text, f, d)
    /\ UNCHANGED <<text, phase, sa_, lcp_, sa, pattern, builder, tools>>

\* string_data::search(grouped_data<OR>, max_distance)
SearchGroupOr(strs, d) ==
    /\ phase = "string_data"
    /\ op = "idle"
    /\ op' = "group"
    /\ data' = [type |-> "OR", strs |-> strs]
    /\ md' = d
    /\ \E g \in Garbage(MaxPatternLen(strs)) :
          LET f == Fevery(text, sa, strs, g) IN
          /\ fevery' = f
          /\ steps' = orSteps(f, d)
          /\ result' = grouped_match_OR(text, f, d)
    /\ UNCHANGED <<text, phase, sa_, lcp_, sa, pattern, builder, tools>>

\* the caller is done with the returned list
Return ==
    /\ op \in {"findAll", "search", "group"}
    /\ op' = "idle"
    /\ pattern' = <<>>
    /\ data' = NoGroup
    /\ md' = 0
    /\ fevery' = <<>>
    /\ steps' = <<>>
    /\ result' = <<>>
    /\ UNCHANGED <<text, phase, sa_, lcp_, sa, builder, tools>>

NextLocate ==
    \/ NewSuffixArray
    \/ NewStringData
    \/ \E p \in Patterns : FindAll(p)
    \/ \E p \in Patterns : Search(p)
    \/ Return

SpecLocate == Init /\ [][NextLocate]_vars

Next ==
    \/ NewSuffixArray
    \/ NewStringData
    \/ \E p \in Patterns : FindAll(p)
    \/ \E p \in Patterns : Search(p)
    \/ \E strs \in GroupLists, d \in 0..MaxMd : SearchGroupAnd(strs, d)
    \/ \E strs \in GroupLists, d \in 0..MaxMd : SearchGroupOr(strs, d)
    \/ Return

Spec == Init /\ [][Next]_vars

\* SAMatcher::count(basic_string)
CallCount(p) ==
    /\ phase = "SuffixArray"
    /\ op = "idle"
    /\ op' = "count"
    /\ pattern' = p
    /\ answer' = [answer EXCEPT !.count = count(text, sa_, p)]
    /\ UNCHANGED <<index, group, result, builder, listcall, parser>>

\* SAMatcher::exists(basic_string)
CallExists(p) ==
    /\ phase = "SuffixArray"
    /\ op = "idle"
    /\ op' = "exists"
    /\ pattern' = p
    /\ answer' = [answer EXCEPT !.exists = exists(text, sa_, p)]
    /\ UNCHANGED <<index, group, result, builder, listcall, parser>>

\* the caller is done with the number or the flag
ReturnAnswer ==
    /\ op \in {"count", "exists"}
    /\ op' = "idle"
    /\ pattern' = <<>>
    /\ answer' = NoAnswer
    /\ UNCHANGED <<index, group, result, builder, listcall, parser>>

NextMatcher ==
    \/ NewSuffixArray
    \/ \E p \in Patterns : FindAll(p)
    \/ \E p \in Patterns : CallCount(p)
    \/ \E p \in Patterns : CallExists(p)
    \/ Return
    \/ ReturnAnswer

SpecMatcher == Init /\ [][NextMatcher]_vars

NextSAIS == NewSuffixArraySAIS

SpecSAIS == Init /\ [][NextSAIS]_vars

\* ---------------------------------------------------- the example program
\* main: the text, the patterns and the default max_distance of the example
Luo == 32599
Mi == 23494
Ou == 27431
Yu == 19982
Zhu == 26417
Li == 20029
Ye == 21494
Stop == 12290
Ai == 29233

Romeo == <<Luo, Mi, Ou>>
Juliet == <<Zhu, Li, Ye>>
Loves == <<Ai>>

\* the first two sentences of main's text: 16 code units
Romeo16 ==
    Romeo \o <<Yu>> \o Juliet \o <<Stop>> \o Romeo \o Loves \o Juliet
        \o <<Stop>>

\* main's text: 24 code units
Romeo24 == Romeo16 \o Juliet \o Loves \o Romeo \o <<Stop>>

\* int max_distance = 5
DefaultMaxDistance == 5

ExampleTexts == {Romeo16, Romeo24}
ExamplePatterns == {Romeo, Juliet, Loves}
ExampleGroups == UNION {[1..k -> ExamplePatterns] : k \in 0..2}

InitExample ==
    /\ text \in ExampleTexts
    /\ phase = "input"
    /\ sa_ = <<>>
    /\ lcp_ = <<>>
    /\ sa = <<>>
    /\ op = "idle"
    /\ pattern = <<>>
    /\ data = NoGroup
    /\ md = 0
    /\ fevery = <<>>
    /\ steps = <<>>
    /\ result = <<>>
    /\ grp = NoGroup
    /\ made = NoCall
    /\ InitTools

NextExample ==
    \/ NewStringData
    \/ \E p \in ExamplePatterns : Search(p)
    \/ \E strs \in ExampleGroups, d \in 0..DefaultMaxDistance :
           SearchGroupAnd(strs, d)
    \/ \E strs \in ExampleGroups, d \in 0..DefaultMaxDistance :
           SearchGroupOr(strs, d)
    \/ Return

SpecExample == InitExample /\ [][NextExample]_vars

\* ---------------------------------------------------- the list operations
\* testLogicalOperations: a and b
TestA == <<1, 3, 5, 7, 9>>
TestB == <<2, 3, 5, 8, 10>>

IsSorted(v) == \A i \in 1..(Len(v) - 1) : v[i] <= v[i + 1]

SortedLists ==
    {v \in UNION {[1..n -> 0..MaxPos] : n \in 0..MaxListLen} : IsSorted(v)}

Distances == 0..MaxMd \cup {IntMax}

InitLists ==
    /\ text = <<>>
    /\ phase = "input"
    /\ sa_ = <<>>
    /\ lcp_ = <<>>
    /\ sa = <<>>
    /\ op = "idle"
    /\ pattern = <<>>
    /\ data = NoGroup
    /\ md = 0
    /\ fevery = <<>>
    /\ steps = <<>>
    /\ result = <<>>
    /\ grp = NoGroup
    /\ made = NoCall
    /\ answer = NoAnswer
    /\ \E a, b \in SortedLists \cup {TestA, TestB} :
           listcall = ListArgs(a, b)
    /\ input = NoInput
    /\ NewParser

AndOperation ==
    /\ listcall.fn = "none"
    /\ listcall' = [listcall EXCEPT
                       !.fn = "andOperation",
                       !.ret = andOperation(listcall.a, listcall.b)]
    /\ UNCHANGED <<index, query, builder, answer, parser>>

OrOperation ==
    /\ listcall.fn = "none"
    /\ listcall' = [listcall EXCEPT
                       !.fn = "orOperation",
                       !.ret = orOperation(listcall.a, listcall.b)]
    /\ UNCHANGED <<index, query, builder, answer, parser>>

NotOperation ==
    /\ listcall.fn = "none"
    /\ listcall' = [listcall EXCEPT
                       !.fn = "notOperation",
                       !.ret = notOperation(listcall.a, listcall.b)]
    /\ UNCHANGED <<index, query, builder, answer, parser>>

ProximityAnd(d) ==
    /\ listcall.fn = "none"
    /\ \E ub \in OverflowOutcomes :
           listcall' = [listcall EXCEPT
                           !.fn = "proximityAnd",
                           !.max_distance = d,
                           !.ret = proximityAnd(listcall.a, listcall.b, d, ub)]
    /\ UNCHANGED <<index, query, builder, answer, parser>>

OrderedProximity(len, d) ==
    /\ listcall.fn = "none"
    /\ \E ub \in OverflowOutcomes :
           listcall' = [listcall EXCEPT
                           !.fn = "orderedProximity",
                           !.pattern_a_len = len,
                           !.max_distance = d,
                           !.ret = orderedProximity(listcall.a, listcall.b,
                                                    len, d, ub)]
    /\ UNCHANGED <<index, query, builder, answer, parser>>

NextLists ==
    \/ AndOperation
    \/ OrOperation
    \/ NotOperation
    \/ \E d \in Distances : ProximityAnd(d)
    \/ \E len \in 0..MaxGroupPatLen, d \in Distances : OrderedProximity(len, d)

SpecLists == InitLists /\ [][NextLists]_vars

\* ------------------------------------------------------ the query parser
\* A query is written as a list of lexical pieces: each piece has the text
\* that goes into the query and the kind its writer means it to be.
Piece(kind, t) == [kind |-> kind, text |-> t]

Word(t) == Piece("WORD", t)

Blank == Piece("space", <<Space>>)

Open == Piece("LPAREN", <<LParen>>)

Close == Piece("RPAREN", <<RParen>>)

\* an underscore-delimited token: _letters_
Delimited(kind, letters) ==
    Piece(kind, <<Underscore>> \o letters \o <<Underscore>>)

\* "_AND_", "_OR_", "_NOT_" as the documentation writes them
OpAND == Delimited("AND", LettersAND)

OpOR == Delimited("OR", LettersOR)

OpNOT == Delimited("NOT", LettersNOT)

\* every way to write the letters in upper and lower case
CaseMixes(letters) ==
    {[k \in 1..Len(letters) |->
         IF k \in lower THEN letters[k] - UpperA + LowerA ELSE letters[k]] :
     lower \in SUBSET (1..Len(letters))}

Operators ==
    {Delimited("AND", s) : s \in CaseMixes(LettersAND)}
    \cup {Delimited("OR", s) : s \in CaseMixes(LettersOR)}
    \cup {Delimited("NOT", s) : s \in CaseMixes(LettersNOT)}

\* the words of the parser's examples: "a", "b", "c"
WordA == <<97>>

WordB == <<98>>

WordC == <<99>>

\* a wide word with a code unit whose low byte is a line feed: U+6D77
\* U+4E0A U+82B1
WordWide == <<28023, 19978, 33457>>

\* a wide word made of one such code unit: U+4E0D
WordNo == <<19981>>

\* underscore-delimited tokens that are no operator: "__", "_a_", "_AN_",
\* "_ORa_", "_nota_", "_ and _", "_(_"
OtherDelimited ==
    {Delimited("UWORD", s) :
        s \in {<<>>, WordA, <<65, 78>>, LettersOR \o WordA,
               <<110, 111, 116, 97>>, <<Space, 97, 110, 100, Space>>,
               <<LParen>>}}

\* an underscore that opens a token the query may never close
Opening == Piece("open", <<Underscore>>)

MaxPieces == 3

MaxOps == 2

RECURSIVE Concat(_)
Concat(ps) == IF ps = <<>> THEN <<>> ELSE Head(ps).text \o Concat(Tail(ps))

\* the trees with exactly n operator nodes over the given words
RECURSIVE TreesOf(_, _)
TreesOf(n, leaves) ==
    IF n = 0 THEN {ASTNode("WORD", w) : w \in leaves}
    ELSE {Negation(t) : t \in TreesOf(n - 1, leaves)}
         \cup UNION {{Binary(type, l, r) :
                         type \in {"AND", "OR"},
                         l \in TreesOf(k, leaves),
                         r \in TreesOf(n - 1 - k, leaves)} :
                     k \in 0..(n - 1)}

\* The query a writer who knows the grammar writes for a tree: NOT takes a
\* word or a parenthesised expression, AND takes NOT-level operands and
\* chains to the left, OR takes AND-level operands and chains to the left;
\* an operand of any other kind is put in parentheses.
RECURSIVE Written(_)
RECURSIVE Operand(_, _)
Written(t) ==
    IF t.type = "WORD" THEN <<Word(t.value)>>
    ELSE IF t.type = "NOT"
         THEN <<OpNOT, Blank>> \o Operand(t.left, {"WORD"})
    ELSE IF t.type = "AND"
         THEN Operand(t.left, {"WORD", "NOT", "AND"})
              \o <<Blank, OpAND, Blank>>
              \o Operand(t.right, {"WORD", "NOT"})
    ELSE Operand(t.left, {"WORD", "NOT", "AND", "OR"})
         \o <<Blank, OpOR, Blank>>
         \o Operand(t.right, {"WORD", "NOT", "AND"})

Operand(t, bare) ==
    IF t.type \in bare THEN Written(t)
    ELSE <<Open>> \o Written(t) \o <<Close>>

InputOf(ps, t) == [pieces |-> ps, intended |-> t, query |-> Concat(ps)]

\* "a _OR_ b _AND_ c" and "a _AND_ (b _OR_ c)"
OrOfAnd ==
    Binary("OR", ASTNode("WORD", WordA),
           Binary("AND", ASTNode("WORD", WordB), ASTNode("WORD", WordC)))

AndOfOr ==
    Binary("AND", ASTNode("WORD", WordA),
           Binary("OR", ASTNode("WORD", WordB), ASTNode("WORD", WordC)))

LeafWords == {WordA, Romeo, WordNo}

WellFormed ==
    {OrOfAnd, AndOfOr} \cup UNION {TreesOf(n, LeafWords) : n \in 0..MaxOps}

FreePieces ==
    {Word(WordA), Word(WordWide), Blank, Open, Close, OpAND, OpOR, OpNOT,
     Opening}

FreeLists == UNION {[1..n -> FreePieces] : n \in 0..MaxPieces}

\* one underscore-delimited token, alone and between words and blanks
DelimitedLists ==
    UNION {{<<d>>, <<Word(WordA), d, Word(WordB)>>,
            <<Word(WordA), Blank, d, Blank, Word(WordB)>>} :
           d \in Operators \cup OtherDelimited}
    \cup {<<d, Blank, e>> : d \in Operators, e \in OtherDelimited}

Inputs ==
    {InputOf(Written(t), t) : t \in WellFormed}
    \cup {InputOf(ps, NoTree) : ps \in FreeLists \cup DelimitedLists}

InitParser ==
    /\ text = <<>>
    /\ phase = "input"
    /\ sa_ = <<>>
    /\ lcp_ = <<>>
    /\ sa = <<>>
    /\ op = "idle"
    /\ pattern = <<>>
    /\ data = NoGroup
    /\ md = 0
    /\ fevery = <<>>
    /\ steps = <<>>
    /\ result = <<>>
    /\ grp = NoGroup
    /\ made = NoCall
    /\ answer = NoAnswer
    /\ listcall = ListArgs(<<>>, <<>>)
    /\ input \in Inputs
    /\ NewParser

others == <<index, query, builder, answer, listcall, input>>

\* tokenize's entry: tokens_.clear(); size_t i = 0
EnterTokenize(fn) ==
    /\ pc = "idle"
    /\ call' = fn
    /\ pc' = "tokenize"
    /\ tokens_' = <<>>
    /\ qpos' = 0
    /\ UNCHANGED <<others, current_, stack, ret, words>>

\* QueryParser::parse(query), up to the call of tokenize
Parse == EnterTokenize("parse")

\* QueryParser::extractWords(query), up to the call of tokenize
ExtractWords == EnterTokenize("extractWords")

\* one iteration of tokenize's outer loop
TokenizeStep ==
    /\ pc = "tokenize"
    /\ qpos < Len(input.query)
    /\ LET it == TokenizeIteration(input.query, qpos)
       IN  /\ qpos' = it.i
           /\ tokens_' = tokens_ \o it.tokens
    /\ UNCHANGED <<others, call, pc, current_, stack, ret, words>>

\* tokenize leaves its loop, pushes END and returns; parse sets current_ = 0
\* and calls parseExpression, extractWords copies the WORD values and returns
TokenizeEnd ==
    /\ pc = "tokenize"
    /\ qpos >= Len(input.query)
    /\ tokens_' = Append(tokens_, Token("END", <<>>))
    /\ IF call = "parse"
       THEN /\ pc' = "parse"
            /\ current_' = 0
            /\ stack' = <<Frame("parseOr", "entry")>>
            /\ UNCHANGED words
       ELSE /\ pc' = "returned"
            /\ words' = WordValues(tokens_')
            /\ UNCHANGED <<current_, stack>>
    /\ UNCHANGED <<others, call, qpos, ret>>

\* the test of the while loop of parseOr and parseAnd with `left` just
\* assigned: one more iteration (current_++ and the call for `right`), or
\* return left
LoopTest(left, type, callee) ==
    IF TokenIs(tokens_, current_, type)
    THEN /\ current_' = current_ + 1
         /\ stack' = Call([stack EXCEPT ![Len(stack)].left = left],
                          "right", callee)
         /\ UNCHANGED ret
    ELSE /\ ret' = left
         /\ stack' = Pop(stack)
         /\ UNCHANGED current_

\* parseOr and parseAnd: the loop over `type` tokens with operands from callee
Chain(fn, type, callee) ==
    /\ pc = "parse"
    /\ stack # <<>>
    /\ Top(stack).fn = fn
    /\ IF Top(stack).at = "entry"
       THEN /\ stack' = Call(stack, "left", callee)
            /\ UNCHANGED <<current_, ret>>
       ELSE IF Top(stack).at = "left"
       THEN LoopTest(ret, type, callee)
       ELSE LoopTest(Binary(type, Top(stack).left, ret), type, callee)
    /\ UNCHANGED <<others, call, pc, qpos, tokens_, words>>

ParseOrStep == Chain("parseOr", "OR", "parseAnd")

ParseAndStep == Chain("parseAnd", "AND", "parseNot")

ParseNotStep ==
    /\ pc = "parse"
    /\ stack # <<>>
    /\ Top(stack).fn = "parseNot"
    /\ IF Top(stack).at = "entry"
       THEN IF TokenIs(tokens_, current_, "NOT")
            THEN /\ current_' = current_ + 1
                 /\ stack' = Call(stack, "operand", "parsePrimary")
                 /\ UNCHANGED ret
            ELSE /\ stack' = Call(stack, "plain", "parsePrimary")
                 /\ UNCHANGED <<current_, ret>>
       ELSE /\ ret' = IF Top(stack).at = "operand" THEN Negation(ret) ELSE ret
            /\ stack' = Pop(stack)
            /\ UNCHANGED current_
    /\ UNCHANGED <<others, call, pc, qpos, tokens_, words>>

\* parsePrimary; its call of parseExpression is the call of parseOr
ParsePrimaryStep ==
    /\ pc = "parse"
    /\ stack # <<>>
    /\ Top(stack).fn = "parsePrimary"
    /\ IF Top(stack).at = "entry"
       THEN IF current_ >= Len(tokens_)
            THEN /\ ret' = nullptr
                 /\ stack' = Pop(stack)
                 /\ UNCHANGED current_
            ELSE IF TokenIs(tokens_, current_, "LPAREN")
            THEN /\ current_' = current_ + 1
                 /\ stack' = Call(stack, "paren", "parseOr")
                 /\ UNCHANGED ret
            ELSE IF TokenIs(tokens_, current_, "WORD")
            THEN /\ ret' = ASTNode("WORD", At(tokens_, current_).value)
                 /\ current_' = current_ + 1
                 /\ stack' = Pop(stack)
            ELSE /\ ret' = nullptr
                 /\ stack' = Pop(stack)
                 /\ UNCHANGED current_
       ELSE /\ current_' = IF TokenIs(tokens_, current_, "RPAREN")
                           THEN current_ + 1
                           ELSE current_
            /\ stack' = Pop(stack)
            /\ UNCHANGED ret
    /\ UNCHANGED <<others, call, pc, qpos, tokens_, words>>

\* parseExpression returned: parse returns its tree
ParseReturn ==
    /\ pc = "parse"
    /\ stack = <<>>
    /\ pc' = "returned"
    /\ UNCHANGED <<others, call, qpos, tokens_, current_, stack, ret, words>>

NextParser ==
    \/ Parse
    \/ ExtractWords
    \/ TokenizeStep
    \/ TokenizeEnd
    \/ ParseOrStep
    \/ ParseAndStep
    \/ ParseNotStep
    \/ ParsePrimaryStep
    \/ ParseReturn

\* a call, once made, runs to its return: nothing else is scheduled
SpecParser == InitParser /\ [][NextParser]_vars /\ WF_vars(NextParser)

\* ------------------------------------------------------- the group builder
\* Each operator is the pair of what it leaves in its group operand (value)
\* and what it returns (ret); copied is the local "result = value".

\* operator&(const wstring &s1, const wstring &s2)
AndOfStrings(s1, s2) == [type |-> "AND", strs |-> <<s1, s2>>]

\* operator&=(grouped_data<AND> &value, const wstring &s2)
AndAssign(value, s2) ==
    LET pushed == [value EXCEPT !.strs = Append(@, s2)]
    IN  [value |-> pushed, ret |-> pushed]

\* mutant: the operator works on its operand instead of on a copy
AndGroupStringInPlace(value, s2) == AndAssign(value, s2)

\* operator&(const grouped_data<AND> &value, const wstring &s2)
AndGroupString(value, s2) ==
    LET copied == value
    IN  [value |-> value, ret |-> AndAssign(copied, s2).value]

\* operator&(const wstring &s1, const grouped_data<AND> &value)
AndStringGroup(s1, value) ==
    LET copied == value
    IN  [value |-> value, ret |-> AndAssign(copied, s1).value]

\* operator|(const wstring &s1, const wstring &s2)
OrOfStrings(s1, s2) == [type |-> "OR", strs |-> <<s1, s2>>]

\* operator|=(grouped_data<OR> &value, const wstring &s2)
OrAssign(value, s2) ==
    LET pushed == [value EXCEPT !.strs = Append(@, s2)]
    IN  [value |-> pushed, ret |-> pushed]

\* operator|(const grouped_data<OR> &value, const wstring &s2)
OrGroupString(value, s2) ==
    LET copied == value
    IN  [value |-> value, ret |-> OrAssign(copied, s2).value]

\* operator|(const wstring &s1, const grouped_data<OR> &value)
OrStringGroup(s1, value) ==
    LET copied == value
    IN  [value |-> value, ret |-> OrAssign(copied, s1).value]

\* g = s1 & s2
BuildAnd(s1, s2) ==
    /\ grp' = AndOfStrings(s1, s2)
    /\ made' = [call |-> "s&s", before |-> NoGroup, args |-> <<s1, s2>>,
                ret |-> AndOfStrings(s1, s2)]
    /\ UNCHANGED <<index, query, tools>>

\* g = s1 | s2
BuildOr(s1, s2) ==
    /\ grp' = OrOfStrings(s1, s2)
    /\ made' = [call |-> "s|s", before |-> NoGroup, args |-> <<s1, s2>>,
                ret |-> OrOfStrings(s1, s2)]
    /\ UNCHANGED <<index, query, tools>>

\* g &= s
AndAssignTo(s) ==
    /\ grp.type = "AND"
    /\ Len(grp.strs) < MaxGroup
    /\ grp' = AndAssign(grp, s).value
    /\ made' = [call |-> "g&=s", before |-> grp, args |-> <<s>>,
                ret |-> AndAssign(grp, s).ret]
    /\ UNCHANGED <<index, query, tools>>

\* g |= s
OrAssignTo(s) ==
    /\ grp.type = "OR"
    /\ Len(grp.strs) < MaxGroup
    /\ grp' = OrAssign(grp, s).value
    /\ made' = [call |-> "g|=s", before |-> grp, args |-> <<s>>,
                ret |-> OrAssign(grp, s).ret]
    /\ UNCHANGED <<index, query, tools>>

\* h = g & s
ExtendAndRight(s) ==
    /\ grp.type = "AND"
    /\ grp' = AndGroupString(grp, s).value
    /\ made' = [call |-> "g&s", before |-> grp, args |-> <<s>>,
                ret |-> AndGroupString(grp, s).ret]
    /\ UNCHANGED <<index, query, tools>>

\* h = s & g
ExtendAndLeft(s) ==
    /\ grp.type = "AND"
    /\ grp' = AndStringGroup(s, grp).value
    /\ made' = [call |-> "s&g", before |-> grp, args |-> <<s>>,
                ret |-> AndStringGroup(s, grp).ret]
    /\ UNCHANGED <<index, query, tools>>

\* h = g | s
ExtendOrRight(s) ==
    /\ grp.type = "OR"
    /\ grp' = OrGroupString(grp, s).value
    /\ made' = [call |-> "g|s", before |-> grp, args |-> <<s>>,
                ret |-> OrGroupString(grp, s).ret]
    /\ UNCHANGED <<index, query, tools>>

\* h = s | g
ExtendOrLeft(s) ==
    /\ grp.type = "OR"
    /\ grp' = OrStringGroup(s, grp).value
    /\ made' = [call |-> "s|g", before |-> grp, args |-> <<s>>,
                ret |-> OrStringGroup(s, grp).ret]
    /\ UNCHANGED <<index, query, tools>>

NextBuilder ==
    \/ \E s1, s2 \in ExamplePatterns : BuildAnd(s1, s2)
    \/ \E s1, s2 \in ExamplePatterns : BuildOr(s1, s2)
    \/ \E s \in ExamplePatterns : AndAssignTo(s)
    \/ \E s \in ExamplePatterns : OrAssignTo(s)
    \/ \E s \in ExamplePatterns : ExtendAndRight(s)
    \/ \E s \in ExamplePatterns : ExtendAndLeft(s)
    \/ \E s \in ExamplePatterns : ExtendOrRight(s)
    \/ \E s \in ExamplePatterns : ExtendOrLeft(s)

SpecBuilder == InitExample /\ [][NextBuilder]_vars

\* ------------------------------------------------------------ claim checks
\* occ(P) by the naive scan: the positions i with T[i..i+m) = P
Occ(s, p) ==
    {i \in 0..(Len(s) - Len(p)) : SubSeq(s, i + 1, i + Len(p)) = p}

StrictlyIncreasing(v) == \A i \in 1..(Len(v) - 1) : v[i] < v[i + 1]

\* C1: the suffix array built by the SuffixArray constructor has length n and
\* holds every position 0..n-1 exactly once.
C1_SAIsPermutation ==
    phase = "SuffixArray" =>
        /\ Len(sa_) = Len(text)
        /\ \A p \in 0..(Len(text) - 1) :
               Cardinality({i \in 1..Len(sa_) : sa_[i] = p}) = 1

C1_Witness ==
    /\ phase = "SuffixArray"
    /\ Len(text) >= 3
    /\ sa_ # Iota(Len(text))

\* C2: the suffix at SA[i] is strictly smaller than the suffix at SA[i+1] in
\* code-unit lexicographic order (a proper prefix is smaller), and
\* SA("banana") = [5,3,1,0,4,2].
C2_SuffixesStrictlyIncreasing ==
    phase = "SuffixArray" =>
        /\ \A i \in 1..(Len(sa_) - 1) :
               LexLess(Suffix(text, sa_[i]), Suffix(text, sa_[i + 1]))
        /\ text = Banana => sa_ = <<5, 3, 1, 0, 4, 2>>

C2_Witness ==
    /\ phase = "SuffixArray"
    /\ text = Banana
    /\ sa_ = <<5, 3, 1, 0, 4, 2>>

\* C3: for every non-empty text the SA-IS variant builds the same suffix array
\* as the naive comparison sort buildSimple.
C3_SAISEqualsSimple ==
    (phase = "SuffixArraySAIS" /\ Len(text) > 0)
        => sa_ = buildSimple(text, Len(text))

\* C4: for a non-empty pattern SAMatcher::findAll returns exactly the positions
\* of the naive scan, as many as the scan counts; on "banana", "ana" is found
\* at [1,3] and "xyz" nowhere.
C4_FindAllIsNaiveScan ==
    (op = "findAll" /\ Len(pattern) > 0) =>
        /\ Range(result) = Occ(text, pattern)
        /\ Len(result) = Cardinality(Occ(text, pattern))
        /\ (text = Banana /\ pattern = Ana) => result = <<1, 3>>
        /\ (text = Banana /\ pattern = Xyz) => result = <<>>

C4_Witness ==
    /\ op = "findAll"
    /\ text = Banana
    /\ pattern = Ana
    /\ result = <<1, 3>>

\* C5: for a non-empty pattern over the alphabet (code unit 0 included)
\* string_data::search returns exactly the positions i in [0, n-m] with
\* T[i..i+m) = P, and no returned position has i + m > n.
C5_SaMatchIsNaiveScan ==
    (op = "search" /\ Len(pattern) > 0) =>
        /\ Range(result) = Occ(text, pattern)
        /\ Len(result) = Cardinality(Occ(text, pattern))
        /\ \A i \in 1..Len(result) : result[i] + Len(pattern) <= Len(text)

\* C6: the list a single-pattern search returns (sa_match and findAll) is
\* strictly increasing.
C6_ResultStrictlyIncreasing ==
    op \in {"search", "findAll"} => StrictlyIncreasing(result)

C6_Witness ==
    /\ op = "search"
    /\ Len(result) >= 2
    /\ Slice(sa, 0, Len(sa)) # Iota(Len(sa))

\* C7: string_data::search with the empty pattern returns the empty list for
\* every text, the empty text included.
C7_EmptyPatternGivesEmpty ==
    (op = "search" /\ pattern = <<>>) => result = <<>>

\* C8: on the empty text the built suffix array is empty, and every
\* single-pattern search with a non-empty pattern and every AND or OR group
\* search whose patterns are all non-empty returns the empty list.
C8_EmptyTextGivesEmpty ==
    text = <<>> =>
        /\ phase = "SuffixArray" => sa_ = <<>>
        /\ (op \in {"search", "findAll"} /\ pattern # <<>>) => result = <<>>
        /\ (op = "group" /\ data.strs # <<>>
              /\ \A i \in 1..Len(data.strs) : data.strs[i] # <<>>)
           => result = <<>>

C8_Witness ==
    /\ text = <<>>
    /\ op = "group"
    /\ data.type = "OR"
    /\ Len(data.strs) = 2
    /\ \A i \in 1..Len(data.strs) : data.strs[i] # <<>>
    /\ result = <<>>

\* C9: for a group with no patterns, AND or OR, grouped_match returns
\* [0, 1, ..., n-1] for every text of length n and every md.
C9_EmptyGroupGivesAllPositions ==
    (op = "group" /\ data.strs = <<>>) =>
        /\ Len(result) = Len(text)
        /\ \A i \in 1..Len(result) : result[i] = i - 1

C9_Witness ==
    /\ op = "group"
    /\ data.type = "OR"
    /\ data.strs = <<>>
    /\ md = 1
    /\ result = <<0, 1, 2>>

\* C10: with every per-pattern occurrence list strictly increasing, the list
\* of grouped_match is strictly increasing after every fold step, for AND and
\* OR, every md >= 0 and every k >= 1.
C10_FoldKeepsStrictlyIncreasing ==
    (op = "group" /\ Len(data.strs) >= 1
        /\ \A i \in 1..Len(fevery) : StrictlyIncreasing(fevery[i]))
    => /\ \A i \in 1..Len(steps) : StrictlyIncreasing(steps[i])
       /\ StrictlyIncreasing(result)
       /\ result = steps[Len(steps)]

C10_Witness ==
    /\ op = "group"
    /\ data.type = "OR"
    /\ Len(data.strs) = 3
    /\ \A i \in 1..3 : Len(fevery[i]) >= 1
    /\ Len(steps[2]) >= 2
    /\ Len(steps[3]) >= 3
    /\ md = 1
    /\ Len(steps[3]) < Len(fevery[1]) + Len(fevery[2]) + Len(fevery[3])

\* the positions of list v that lie farther than d from every position of w
Isolated(v, w, d) ==
    {p \in Range(v) : \A q \in Range(w) : Abs(p - q) > d}

Count(v, p) == Cardinality({i \in 1..Len(v) : v[i] = p})

OrOfTwo == op = "group" /\ data.type = "OR" /\ Len(data.strs) = 2

AndOfTwo == op = "group" /\ data.type = "AND" /\ Len(data.strs) = 2

\* C11 as stated: for OR([P,Q]) and every md >= 0 every position that is in
\* exactly one of the two occurrence lists is in the output.
C11_OrCoversSymmetricDifference ==
    OrOfTwo =>
        ((Range(fevery[1]) \ Range(fevery[2]))
            \cup (Range(fevery[2]) \ Range(fevery[1]))) \subseteq Range(result)

\* C11 as amended: for OR([P,Q]) and every md >= 0 every position of one
\* occurrence list that lies farther than md from every position of the other
\* list is in the output (for md = 0: the whole symmetric difference).
C11_OrKeepsIsolated ==
    OrOfTwo =>
        /\ Isolated(fevery[1], fevery[2], md) \subseteq Range(result)
        /\ Isolated(fevery[2], fevery[1], md) \subseteq Range(result)
        /\ md = 0 =>
              ((Range(fevery[1]) \ Range(fevery[2]))
                  \cup (Range(fevery[2]) \ Range(fevery[1])))
              \subseteq Range(result)

C11_Witness ==
    /\ OrOfTwo
    /\ md = 1
    /\ Isolated(fevery[1], fevery[2], md) # {}
    /\ Isolated(fevery[2], fevery[1], md) # {}
    /\ \E p \in Range(fevery[2]) \ Range(fevery[1]) : p \notin Range(result)

\* C12: every position returned for OR([P,Q]) is in occ(P) or in occ(Q), and
\* a position that is in both lists appears in the output at most once.
C12_OrWithinUnionNoRepeat ==
    OrOfTwo =>
        /\ Range(result) \subseteq Range(fevery[1]) \cup Range(fevery[2])
        /\ \A p \in Range(fevery[1]) \cap Range(fevery[2]) :
               Count(result, p) <= 1

C12_Witness ==
    /\ OrOfTwo
    /\ Range(fevery[1]) \cap Range(fevery[2]) # {}
    /\ Range(fevery[1]) \cap Range(fevery[2]) \cap Range(result) # {}
    /\ Range(fevery[1]) # Range(fevery[2])

\* C13: for AND of two patterns with occurrence lists A and B, if
\* |A[j] - B[k]| > md for every pair, the result is empty.
C13_AndOfFarListsIsEmpty ==
    (AndOfTwo /\ \A p \in Range(fevery[1]) : \A q \in Range(fevery[2]) :
                    Abs(p - q) > md)
    => result = <<>>

C13_Witness ==
    /\ AndOfTwo
    /\ Len(fevery[1]) >= 2
    /\ Len(fevery[2]) >= 1
    /\ md = 1
    /\ \A p \in Range(fevery[1]) : \A q \in Range(fevery[2]) : Abs(p - q) > md
    /\ \E p \in Range(fevery[1]) : \E q \in Range(fevery[2]) : p < q
    /\ result = <<>>

\* C14: for an AND group of k >= 1 patterns, if the occurrence list of any
\* one pattern (first included) is empty, the result is empty, for every md.
C14_AndWithEmptyListIsEmpty ==
    (op = "group" /\ data.type = "AND" /\ Len(data.strs) >= 1
        /\ \E i \in 1..Len(fevery) : fevery[i] = <<>>)
    => result = <<>>

C14_Witness ==
    /\ op = "group"
    /\ data.type = "AND"
    /\ Len(data.strs) = 3
    /\ fevery[1] # <<>>
    /\ fevery[2] # <<>>
    /\ steps[2] # <<>>
    /\ fevery[3] = <<>>
    /\ result = <<>>

RomeoLovesQuery ==
    /\ text = Romeo16
    /\ op = "group"
    /\ data = [type |-> "AND", strs |-> <<Romeo, Loves>>]
    /\ md = DefaultMaxDistance

\* C15 as stated: on the 16-unit text, where "Romeo" occurs at [0, 8] and
\* "loves" at [11], the AND group of the two with md = 5 returns [7].
C15_RomeoLovesGivesSeven == RomeoLovesQuery => result = <<7>>

\* C15 as amended: on the 16-unit text, where "Romeo" occurs at [0, 8] and
\* "loves" at [11], the AND group of the two with md = 5 returns [8].
C15_RomeoLovesGivesEight ==
    RomeoLovesQuery =>
        /\ fevery = <<<<0, 8>>, <<11>>>>
        /\ result = <<8>>

C15_Witness ==
    /\ RomeoLovesQuery
    /\ Len(text) = 16
    /\ Len(result) = 1

\* no index of either list occurs in two pairings
OneToOne(pairs) ==
    \A x, y \in 1..Len(pairs) :
        x # y => pairs[x][1] # pairs[y][1] /\ pairs[x][2] # pairs[y][2]

\* the positions a list of pairings emits
Emitted(a, b, pairs) ==
    [x \in 1..Len(pairs) |-> Min(At(a, pairs[x][1]), At(b, pairs[x][2]))]

\* C16: within one fold step (AND or OR) each position A[j] and each
\* position B[k] takes part in at most one emitted pairing, and an AND step
\* emits at most min(|A|, |B|) positions.
C16_OnePairingPerPosition ==
    (op = "group" /\ Len(data.strs) >= 2) =>
        \A i \in 2..Len(fevery) :
            LET a == steps[i - 1]
                b == fevery[i]
            IN  IF data.type = "AND"
                THEN /\ OneToOne(andPairs(a, b, md))
                     /\ steps[i] = Emitted(a, b, andPairs(a, b, md))
                     /\ Len(steps[i]) <= Min(Len(a), Len(b))
                ELSE /\ OneToOne(orPairs(a, b, md))
                     /\ Len(steps[i])
                            = Len(a) + Len(b) - Len(orPairs(a, b, md))

C16_Witness ==
    /\ op = "group"
    /\ data.type = "AND"
    /\ Len(data.strs) = 2
    /\ md = 1
    /\ \E p \in Range(fevery[1]) :
           Cardinality({q \in Range(fevery[2]) : Abs(p - q) <= md}) >= 2
    /\ Len(fevery[1]) < Len(fevery[2])
    /\ Len(result) = Len(fevery[1])

\* the orders in which a list of k patterns can be written
Orders(k) ==
    {pi \in [1..k -> 1..k] : \A x, y \in 1..k : x # y => pi[x] # pi[y]}

\* C17: a group is an unordered collection: for every text, md, kind and
\* list of k >= 2 patterns, grouped_match returns the same position list for
\* every permutation of the group's pattern list.
C17_GroupIsUnordered ==
    (op = "group" /\ Len(data.strs) >= 2) =>
        \A pi \in Orders(Len(fevery)) :
            LET f == [i \in 1..Len(fevery) |-> fevery[pi[i]]]
            IN  result = IF data.type = "AND"
                         THEN grouped_match_AND(text, f, md)
                         ELSE grouped_match_OR(text, f, md)

\* C18: s1 & s2 is the AND group [s1, s2]; extending a group g by a string
\* s with operator& (operator| for an OR group), the string on either side,
\* yields a group of g's kind whose list is g's list followed by s, and
\* leaves the operand g unchanged.
C18_BuilderAppendsAndKeepsOperand ==
    /\ made.call = "s&s" =>
           made.ret = [type |-> "AND", strs |-> made.args]
    /\ made.call \in {"g&s", "s&g", "g|s", "s|g"} =>
           /\ made.ret.type = made.before.type
           /\ made.ret.strs = made.before.strs \o made.args
           /\ Len(made.args) = 1
           /\ grp = made.before
    /\ made.call \in {"g&s", "s&g"} => made.before.type = "AND"
    /\ made.call \in {"g|s", "s|g"} => made.before.type = "OR"

C18_Witness ==
    /\ made.call = "s&g"
    /\ made.before = [type |-> "AND", strs |-> <<Romeo, Loves>>]
    /\ made.args = <<Juliet>>
    /\ made.ret.strs = <<Romeo, Loves, Juliet>>
    /\ grp.strs = <<Romeo, Loves>>

\* C19: after string_data is constructed, any sequence of search(pattern)
\* and search(group, md) calls leaves the text and the suffix array as the
\* constructor made them, and each call's result is the result the same call
\* gives when run alone on a fresh index, whatever that run reads.
C19_QueriesAreIndependent ==
    phase = "string_data" =>
        /\ sa = suffix_array(text)
        /\ op = "search" =>
               \A g \in Garbage(Len(pattern)) :
                   result = sa_match(text, suffix_array(text), pattern, g)
        /\ op = "group" =>
               \A g \in Garbage(MaxPatternLen(data.strs)) :
                   LET f == Fevery(text, suffix_array(text), data.strs, g)
                   IN  result = IF data.type = "AND"
                                THEN grouped_match_AND(text, f, md)
                                ELSE grouped_match_OR(text, f, md)

\* the length of the longest common prefix of two sequences
CommonPrefixLen(u, v) ==
    Cardinality({k \in 1..Min(Len(u), Len(v)) :
                    \A x \in 1..k : u[x] = v[x]})

\* C20: LCP[0] = 0 and, for every i >= 1, LCP[i] is the exact length of the
\* longest common prefix of the suffixes at SA[i-1] and SA[i].
C20_LcpIsCommonPrefixLength ==
    phase = "SuffixArray" =>
        /\ Len(lcp_) = Len(text)
        /\ Len(text) > 0 => lcp_[1] = 0
        /\ \A i \in 2..Len(text) :
               lcp_[i] = CommonPrefixLen(Suffix(text, sa_[i - 1]),
                                         Suffix(text, sa_[i]))

C20_Witness ==
    /\ phase = "SuffixArray"
    /\ text = Banana
    /\ sa_ = <<5, 3, 1, 0, 4, 2>>
    /\ lcp_ = <<0, 1, 3, 0, 0, 2>>

\* C21: SAMatcher's three operations agree: count(P) is the length of
\* findAll(P) and exists(P) is true exactly when count(P) > 0; for the empty
\* pattern or the empty text they give 0, the empty list and false.
C21_CountExistsFindAllAgree ==
    /\ op = "count" =>
           /\ answer.count = Len(findAll(text, sa_, pattern))
           /\ (text = <<>> \/ pattern = <<>>) => answer.count = 0
           /\ (text = Banana /\ pattern = Na) => answer.count = 2
    /\ op = "exists" =>
           /\ answer.exists = (count(text, sa_, pattern) > 0)
           /\ answer.exists = (findAll(text, sa_, pattern) # <<>>)
           /\ (text = <<>> \/ pattern = <<>>) => answer.exists = FALSE
           /\ (text = Banana /\ pattern = Ana) => answer.exists = TRUE
           /\ (text = Banana /\ pattern = Xyz) => answer.exists = FALSE
    /\ op = "findAll" =>
           /\ Len(result) = count(text, sa_, pattern)
           /\ (text = <<>> \/ pattern = <<>>) => result = <<>>

C21_Witness ==
    /\ op = "exists"
    /\ text = Banana
    /\ pattern = Xyz
    /\ answer.exists = FALSE
    /\ count(text, sa_, pattern) = 0

\* C22: for strictly increasing position lists a and b, andOperation,
\* orOperation and notOperation return, as strictly increasing lists, exactly
\* the intersection, the union and the difference a \ b of the two sets.
C22_LogicalOperationsAreSetOperations ==
    (StrictlyIncreasing(listcall.a) /\ StrictlyIncreasing(listcall.b)) =>
        /\ listcall.fn \in {"andOperation", "orOperation", "notOperation"}
               => StrictlyIncreasing(listcall.ret)
        /\ listcall.fn = "andOperation" =>
               Range(listcall.ret) = Range(listcall.a) \cap Range(listcall.b)
        /\ listcall.fn = "orOperation" =>
               Range(listcall.ret) = Range(listcall.a) \cup Range(listcall.b)
        /\ listcall.fn = "notOperation" =>
               Range(listcall.ret) = Range(listcall.a) \ Range(listcall.b)
        /\ (listcall.a = TestA /\ listcall.b = TestB) =>
               /\ listcall.fn = "andOperation" => listcall.ret = <<3, 5>>
               /\ listcall.fn = "orOperation" =>
                      listcall.ret = <<1, 2, 3, 5, 7, 8, 9, 10>>
               /\ listcall.fn = "notOperation" => listcall.ret = <<1, 7, 9>>

C22_Witness ==
    /\ listcall.fn = "notOperation"
    /\ listcall.a = TestA
    /\ listcall.b = TestB
    /\ listcall.ret = <<1, 7, 9>>

\* the elements of a, in order, that have the property near
Kept(a, near(_)) == SelectSeq(a, near)

\* some b[k] lies within d of x
HasNear(b, x, d) == \E k \in 1..Len(b) : Abs(b[k] - x) <= d

\* some b[k] lies in [lo, lo + d], said without forming lo + d
HasWithin(b, lo, d) == \E k \in 1..Len(b) : lo <= b[k] /\ b[k] - lo <= d

\* C23: for sorted lists a and b and max_distance >= 0, proximityAnd returns
\* exactly the elements a[i], in order, for which some b[k] satisfies
\* |b[k] - a[i]| <= max_distance.
C23_ProximityAndKeepsNearPositions ==
    listcall.fn = "proximityAnd" =>
        listcall.ret =
            Kept(listcall.a,
                 LAMBDA x : HasNear(listcall.b, x, listcall.max_distance))

\* C23 holds wherever a[i] + max_distance stays an int.
C23_HoldsWithinIntRange ==
    (listcall.fn = "proximityAnd"
        /\ \A i \in 1..Len(listcall.a) :
               listcall.a[i] <= IntMax - listcall.max_distance)
    => listcall.ret =
           Kept(listcall.a,
                LAMBDA x : HasNear(listcall.b, x, listcall.max_distance))

\* C24: for sorted lists a and b, pattern_a_len >= 0 and max_distance >= 0,
\* orderedProximity returns exactly the elements a[i], in order, for which
\* some b[k] satisfies
\* a[i] + pattern_a_len <= b[k] <= a[i] + pattern_a_len + max_distance.
C24_OrderedProximityKeepsFollowedPositions ==
    listcall.fn = "orderedProximity" =>
        listcall.ret =
            Kept(listcall.a,
                 LAMBDA x : HasWithin(listcall.b, x + listcall.pattern_a_len,
                                      listcall.max_distance))

\* C24 holds wherever a[i] + pattern_a_len + max_distance stays an int.
C24_HoldsWithinIntRange ==
    (listcall.fn = "orderedProximity"
        /\ \A i \in 1..Len(listcall.a) :
               listcall.a[i] + listcall.pattern_a_len
                   <= IntMax - listcall.max_distance)
    => listcall.ret =
           Kept(listcall.a,
                LAMBDA x : HasWithin(listcall.b, x + listcall.pattern_a_len,
                                     listcall.max_distance))

\* the pairs (j, k), 1-based, of positions of v and w within d of each other
NearPairs(v, w, d) ==
    {jk \in (1..Len(v)) \X (1..Len(w)) : Abs(v[jk[1]] - w[jk[2]]) <= d}

\* C29: for an AND group of two patterns with occurrence lists A and B and
\* md >= 0, grouped_match returns a non-empty list if and only if some pair
\* (j, k) has |A[j] - B[k]| <= md, and every emitted position is
\* min(A[j], B[k]) of such a pair.
C29_AndOfTwoFindsSomeNearPair ==
    AndOfTwo =>
        /\ StrictlyIncreasing(fevery[1]) /\ StrictlyIncreasing(fevery[2])
        /\ (result # <<>>) <=> (NearPairs(fevery[1], fevery[2], md) # {})
        /\ \A p \in Range(result) :
               \E jk \in NearPairs(fevery[1], fevery[2], md) :
                   p = Min(fevery[1][jk[1]], fevery[2][jk[2]])

C29_Witness ==
    /\ AndOfTwo
    /\ md = 1
    /\ result # <<>>
    /\ Len(result) < Cardinality(NearPairs(fevery[1], fevery[2], md))
    /\ \A p \in Range(fevery[1]) : p \notin Range(fevery[2])

\* C30: with md = 0, for every list of k >= 1 occurrence lists, grouped_match
\* on an AND group equals multiAnd, the intersection of all lists, and on an
\* OR group equals multiOr, the union of all lists.
C30_ZeroDistanceIsSetOperation ==
    (op = "group" /\ md = 0 /\ Len(fevery) >= 1) =>
        /\ \A i \in 1..Len(fevery) : StrictlyIncreasing(fevery[i])
        /\ data.type = "AND" =>
               /\ result = multiAnd(fevery)
               /\ Range(result) =
                      {p \in Range(fevery[1]) :
                          \A i \in 1..Len(fevery) : p \in Range(fevery[i])}
        /\ data.type = "OR" =>
               /\ result = multiOr(fevery)
               /\ Range(result) = UNION {Range(fevery[i]) : i \in 1..Len(fevery)}

C30_Witness ==
    /\ op = "group"
    /\ md = 0
    /\ data.type = "OR"
    /\ Len(fevery) = 3
    /\ Range(fevery[1]) \cap Range(fevery[2]) # {}
    /\ Range(fevery[3]) \ (Range(fevery[1]) \cup Range(fevery[2])) # {}
    /\ Range(fevery[1]) # Range(fevery[2])
    /\ result = multiOr(fevery)

\* ------------------------------------------------- claims on the parser
\* the kinds of piece that separate the words of a query
Separators == {"space", "LPAREN", "RPAREN", "AND", "OR", "NOT"}

\* a query of words kept apart by blanks, parentheses and operators
WordsApart(ps) ==
    /\ \A k \in 1..Len(ps) : ps[k].kind \in Separators \cup {"WORD"}
    /\ \A k \in 1..(Len(ps) - 1) :
           ~(ps[k].kind = "WORD" /\ ps[k + 1].kind = "WORD")

\* the words the query was written with, in query order
RECURSIVE WordsOf(_)
WordsOf(ps) ==
    IF ps = <<>> THEN <<>>
    ELSE IF Head(ps).kind = "WORD"
         THEN <<Head(ps).text>> \o WordsOf(Tail(ps))
         ELSE WordsOf(Tail(ps))

\* no code unit above 255 has the low byte of a whitespace character
NoWideWhitespace(q) == \A k \in 1..Len(q) : isspace(q[k]) => q[k] \in WhiteSpace

\* C25: for a query made of words (no whitespace, parenthesis or underscore
\* in them) separated by whitespace, parentheses and the operators _AND_,
\* _OR_, _NOT_, extractWords returns exactly the words, in query order.
C25_ExtractWordsReturnsTheWords ==
    (call = "extractWords" /\ pc = "returned" /\ WordsApart(input.pieces))
        => words = WordsOf(input.pieces)

\* C25 holds for the queries in which only whitespace characters have the
\* low byte of a whitespace character.
C25_HoldsWithoutWideWhitespace ==
    (/\ call = "extractWords"
     /\ pc = "returned"
     /\ WordsApart(input.pieces)
     /\ NoWideWhitespace(input.query))
        => words = WordsOf(input.pieces)

\* the tokens that came from an underscore: operators and WORD tokens whose
\* value starts with an underscore
RECURSIVE DelimitedTokens(_)
DelimitedTokens(toks) ==
    IF toks = <<>> THEN <<>>
    ELSE LET tok == Head(toks)
             rest == DelimitedTokens(Tail(toks))
         IN  IF \/ tok.type \in {"AND", "OR", "NOT"}
                \/ /\ tok.type = "WORD"
                   /\ tok.value # <<>>
                   /\ tok.value[1] = Underscore
             THEN <<tok>> \o rest
             ELSE rest

\* what the writer means the underscore-delimited pieces to be: an operator
\* for the letters of AND, OR, NOT, a word with its underscores otherwise
RECURSIVE MeantTokens(_)
MeantTokens(ps) ==
    IF ps = <<>> THEN <<>>
    ELSE IF Head(ps).kind \in {"AND", "OR", "NOT"}
         THEN <<Token(Head(ps).kind, <<>>)>> \o MeantTokens(Tail(ps))
    ELSE IF Head(ps).kind = "UWORD"
         THEN <<Token("WORD", Head(ps).text)>> \o MeantTokens(Tail(ps))
    ELSE MeantTokens(Tail(ps))

AllClosed(ps) == \A k \in 1..Len(ps) : ps[k].kind # "open"

\* C26: an underscore-delimited token whose letters spell AND, OR or NOT in
\* any mix of upper and lower case yields the operator token; any other
\* underscore-delimited token yields a single WORD token whose value is the
\* token's text, underscores included.
C26_OperatorsIgnoreCase ==
    (pc = "returned" /\ AllClosed(input.pieces))
        => DelimitedTokens(tokens_) = MeantTokens(input.pieces)

C26_Witness ==
    /\ pc = "returned"
    /\ \E d \in Operators, e \in OtherDelimited :
           /\ d.text \notin {OpAND.text, OpOR.text, OpNOT.text}
           /\ op_upper(d.text) # d.text
           /\ e.text # <<Underscore, Underscore>>
           /\ input.pieces = <<d, Blank, e>>
           /\ tokens_ = <<Token(d.kind, <<>>), Token("WORD", e.text),
                          Token("END", <<>>)>>

\* C27: parse builds the tree with NOT binding tighter than AND and AND
\* tighter than OR, AND and OR chaining to the left and a parenthesised
\* sub-expression parsed as a unit ("a _OR_ b _AND_ c" gives OR(a, AND(b, c)),
\* "a _AND_ (b _OR_ c)" gives AND(a, OR(b, c))): a query written from a tree
\* by these rules parses to that tree, and every token but END is consumed.
C27_ParseFollowsPrecedence ==
    (call = "parse" /\ pc = "returned" /\ input.intended # NoTree)
        => /\ ret = input.intended
           /\ current_ = Len(tokens_) - 1

\* C27 holds for the queries in which only whitespace characters have the
\* low byte of a whitespace character.
C27_HoldsWithoutWideWhitespace ==
    (/\ call = "parse"
     /\ pc = "returned"
     /\ input.intended # NoTree
     /\ NoWideWhitespace(input.query))
        => /\ ret = input.intended
           /\ current_ = Len(tokens_) - 1

\* a step that runs one more iteration of the loop of parseOr or parseAnd
LoopIteration ==
    /\ pc = "parse"
    /\ stack # <<>>
    /\ Top(stack).fn \in {"parseOr", "parseAnd"}
    /\ Top(stack).at # "entry"
    /\ Len(stack') > Len(stack)

\* tokens_ once tokenize has returned: one END token, and it is the last
EndsWithOneEND ==
    pc \in {"parse", "returned"}
        => /\ tokens_ # <<>>
           /\ \A k \in 1..Len(tokens_) :
                  tokens_[k].type = "END" <=> k = Len(tokens_)

\* C28: tokenize and parse terminate for every finite query, malformed ones
\* included: every iteration of the tokenizer's loop consumes at least one
\* character, every iteration of a parser loop consumes at least one token,
\* the token list ends with exactly one END, and a call that entered
\* tokenize returns.
C28_TokenizeAndParseTerminate ==
    /\ [][/\ (pc = "tokenize" /\ pc' = "tokenize") => qpos' > qpos
          /\ LoopIteration => current_' > current_]_vars
    /\ []EndsWithOneEND
    /\ (pc = "tokenize") ~> (pc = "returned")

C28_Witness ==
    /\ call = "parse"
    /\ pc = "returned"
    /\ Len(input.pieces) = MaxPieces
    /\ \E k \in 1..Len(input.pieces) : input.pieces[k].kind = "open"
    /\ \E k \in 1..Len(input.pieces) : input.pieces[k].kind = "LPAREN"
    /\ \A k \in 1..Len(input.pieces) : input.pieces[k].kind # "RPAREN"
    /\ current_ < Len(tokens_) - 1

====
